---- MODULE Spec2Model ----
(***************************************************************************)
(* CSV Doctor: the validator (validator.py), the cleaning pipeline         *)
(* (cleaner.py) and type inference (utils.py) as state machines.           *)
(*                                                                         *)
(* A DataFrame is a record [columns, rows]: columns is the ordered list of *)
(* [name, dtype] and rows the ordered list of rows, each a tuple of cells. *)
(* A cell is <<kind, n, s, d>>: the missing marker, the number n/d or the  *)
(* string s.                                                               *)
(*                                                                         *)
(* Floating point values are modelled as exact fractions <<num, den>> with *)
(* den > 0; <<0, 0>> is NaN.  round(x, 2) yields hundredths; where the     *)
(* exact value lies half way between two hundredths the double that Python *)
(* rounds may lie on either side, so both neighbours are possible.         *)
(***************************************************************************)
EXTENDS Integers, Sequences, FiniteSets, TLC

VARIABLES
    df,           \* CSVCleaner.df, the working table (also what the validator reads)
    original_df,  \* CSVCleaner.original_df
    caller_df,    \* the DataFrame the caller passed to CSVCleaner(df)
    id,           \* the object each of the three names refers to
    changes,      \* CSVCleaner.changes, the change log
    last_clean,   \* the most recent cleaner call: its name, arguments and locals
    result,       \* the value returned by the most recent validator, analyzer or
                  \* helper call
    series,       \* the Series handed to infer_column_type
    inferred,     \* the value infer_column_type returned for series
    obj,          \* the object handed to sanitize_dict
    line          \* the first line handed to _detect_delimiter

vars == <<df, original_df, caller_df, id, changes, last_clean, result, series, inferred, obj, line>>

-----------------------------------------------------------------------------
(* Bounds of the model *)

\* rows of a loaded table
MaxRows == 3
\* values of the input Series that read as a number / as a date
MaxNumeric == 4
MaxDatetime == 4

-----------------------------------------------------------------------------
(* Cells *)

Null == <<"null", 0, "", 1>>
Num(n) == <<"num", n, "", 1>>
Str(s) == <<"str", 0, s, 1>>

isna(c) == c[1] = "null"

\* Strings pd.to_numeric(errors='coerce') turns into a number.
NumericStrings == {"7"}

\* A schema: the columns of a loaded table and the values each one draws from.
Col(name, dtype) == [name |-> name, dtype |-> dtype]

Numbers == {Null, Num(1), Num(-2)}
Words2 == {Null, Str("a")}
Words3 == {Null, Str("a"), Str("7")}

Schemas ==
    { [columns |-> <<Col("a", "number")>>, cells |-> <<Numbers>>],
      [columns |-> <<Col("b", "object")>>, cells |-> <<Words3>>],
      [columns |-> <<Col("a", "number"), Col("b", "object")>>, cells |-> <<Numbers, Words2>>],
      [columns |-> <<Col("b", "object"), Col("c", "object")>>, cells |-> <<Words2, Words2>>] }

RowsOver(sch) ==
    { r \in [1..Len(sch.columns) -> Numbers \cup Words3] :
        \A j \in 1..Len(sch.columns) : r[j] \in sch.cells[j] }

Tables ==
    UNION { UNION { { [columns |-> sch.columns, rows |-> rs] : rs \in [1..n -> RowsOver(sch)] }
                    : n \in 0..MaxRows }
            : sch \in Schemas }

-----------------------------------------------------------------------------
(* Sequences and sums *)

Range(s) == { s[i] : i \in 1..Len(s) }

RECURSIVE SumSeq(_)
SumSeq(s) == IF Len(s) = 0 THEN 0 ELSE s[1] + SumSeq(Tail(s))

\* The subsequence of s at the positions satisfying keep, in order.
RECURSIVE SelectIdx(_, _, _)
SelectIdx(s, keep, i) ==
    IF i > Len(s) THEN <<>>
    ELSE (IF keep[i] THEN <<s[i]>> ELSE <<>>) \o SelectIdx(s, keep, i + 1)

-----------------------------------------------------------------------------
(* Floating point values as fractions *)

Abs(n) == IF n < 0 THEN -n ELSE n

RECURSIVE GCD(_, _)
GCD(a, b) == IF b = 0 THEN a ELSE GCD(b, a % b)

NaN == <<0, 0>>
\* n/d in lowest terms, d > 0
Frac(n, d) == LET g == GCD(Abs(n), d) IN <<n \div g, d \div g>>
Whole(n) == <<n, 1>>
IsNaN(x) == x[2] = 0

\* numpy scalar division: x / 0 with x = 0 is nan (a warning, no exception).
NpDiv(a, b) == IF b = 0 THEN NaN ELSE Frac(a, b)

FGt(x, y) == ~IsNaN(x) /\ ~IsNaN(y) /\ x[1] * y[2] > y[1] * x[2]
FSub(x, y) == IF IsNaN(x) \/ IsNaN(y) THEN NaN
              ELSE Frac(x[1] * y[2] - y[1] * x[2], x[2] * y[2])
FAdd(x, y) == IF IsNaN(x) \/ IsNaN(y) THEN NaN
              ELSE Frac(x[1] * y[2] + y[1] * x[2], x[2] * y[2])
\* x * (p/q)
FMul(x, p, q) == IF IsNaN(x) THEN NaN ELSE Frac(x[1] * p, x[2] * q)

\* Python max(0, x): x replaces 0 only if x > 0, so max(0, nan) is 0.
PyMax0(x) == IF FGt(x, Whole(0)) THEN x ELSE Whole(0)

\* round(x, 2) of a non-negative x, in hundredths.
Round2(x) ==
    LET h == 100 * x[1]
        q == h \div x[2]
        r == h % x[2]
    IN  IF 2 * r < x[2] THEN {q}
        ELSE IF 2 * r > x[2] THEN {q + 1}
        ELSE {q, q + 1}

-----------------------------------------------------------------------------
(* pandas operations on a table *)

NRows(t) == Len(t.rows)
NCols(t) == Len(t.columns)

Column(t, j) == [i \in 1..NRows(t) |-> t.rows[i][j]]

\* df[col].isna().sum()
IsnaSum(t, j) == Cardinality({ i \in 1..NRows(t) : isna(t.rows[i][j]) })

\* df.isna().sum().sum()
IsnaSumSum(t) == SumSeq([j \in 1..NCols(t) |-> IsnaSum(t, j)])

\* df[col].nunique(): distinct values, the missing marker not counted.
NUnique(t, j) == Cardinality({ c \in Range(Column(t, j)) : ~isna(c) })

\* The positions of the columns named in subset (None: every column).
None == <<"None">>
SubsetIdx(t, subset) ==
    IF subset = None THEN [j \in 1..NCols(t) |-> j]
    ELSE [k \in 1..Len(subset) |->
            CHOOSE j \in 1..NCols(t) : t.columns[j].name = subset[k]]

KnownNames(t, subset) ==
    subset = None \/ \A k \in 1..Len(subset) :
                        \E j \in 1..NCols(t) : t.columns[j].name = subset[k]

Key(t, idx, i) == [k \in 1..Len(idx) |-> t.rows[i][idx[k]]]

\* df.duplicated(subset, keep): missing markers compare equal; an empty frame
\* (no row or no column) has no duplicate.
Duplicated(t, subset, keep) ==
    LET idx == SubsetIdx(t, subset)
        same(i, j) == Key(t, idx, i) = Key(t, idx, j)
    IN  [i \in 1..NRows(t) |->
            /\ NCols(t) > 0
            /\ CASE keep = "first" -> \E j \in 1..(i - 1) : same(i, j)
                 [] keep = "last"  -> \E j \in (i + 1)..NRows(t) : same(i, j)
                 [] OTHER          -> \E j \in 1..NRows(t) : j # i /\ same(i, j)]

DuplicatedSum(t, subset, keep) ==
    Cardinality({ i \in 1..NRows(t) : Duplicated(t, subset, keep)[i] })

\* Mutant: only a row equal to its predecessor is dropped.
DropDuplicates_Consecutive(t, subset, keep) ==
    LET idx == SubsetIdx(t, subset)
    IN  [t EXCEPT !.rows =
            SelectIdx(t.rows, [i \in 1..NRows(t) |->
                                 i = 1 \/ Key(t, idx, i) # Key(t, idx, i - 1)], 1)]

\* df.drop_duplicates(subset, keep)
DropDuplicates(t, subset, keep) ==
    LET dup == Duplicated(t, subset, keep)
    IN  [t EXCEPT !.rows = SelectIdx(t.rows, [i \in 1..NRows(t) |-> ~dup[i]], 1)]

-----------------------------------------------------------------------------
(* validator.py *)

NoResult == [op |-> "none"]

\* Mutant: duplicated() with its default keep='first' instead of keep=False.
detect_duplicates_ExtrasOnly(t) ==
    LET duplicate_count == DuplicatedSum(t, None, "first")
    IN  IF NRows(t) = 0
        THEN { [op |-> "detect_duplicates", raised |-> TRUE] }
        ELSE { [op |-> "detect_duplicates", raised |-> FALSE,
                duplicate_count |-> duplicate_count,
                duplicate_percentage |-> p,
                duplicate_rows |-> IF duplicate_count > 0
                                   THEN duplicate_count \div 2 ELSE 0]
               : p \in Round2(Frac(100 * duplicate_count, NRows(t))) }

\* CSVValidator.detect_duplicates.  duplicate_count is a Python int, so on a
\* table without rows 100 * duplicate_count / len(df) raises ZeroDivisionError.
detect_duplicates(t) ==
    LET duplicate_count == DuplicatedSum(t, None, "False")
    IN  IF NRows(t) = 0
        THEN { [op |-> "detect_duplicates", raised |-> TRUE] }
        ELSE { [op |-> "detect_duplicates", raised |-> FALSE,
                duplicate_count |-> duplicate_count,
                duplicate_percentage |-> p,
                duplicate_rows |-> IF duplicate_count > 0
                                   THEN duplicate_count \div 2 ELSE 0]
               : p \in Round2(Frac(100 * duplicate_count, NRows(t))) }

\* unique_count == 1
ConstantColumn(t, j) == NUnique(t, j) = 1

\* null_pct = 100 * isna().sum() / len(df); null_pct > 50
NullPct(t, j) == NpDiv(100 * IsnaSum(t, j), NRows(t))
\* Mutant: null_pct >= 50
HighNullPercentage_Inclusive(t, j) == ~IsNaN(NullPct(t, j)) /\ ~FGt(Whole(50), NullPct(t, j))
HighNullPercentage(t, j) == FGt(NullPct(t, j), Whole(50))

\* The numbers of the tables given to the validator are whole: col[i][2] is
\* the value.
\* Numeric column with a non-null value, mean != 0 and std / abs(mean) > 2,
\* std the sample (n - 1) deviation, nan for a single value.  With S the sum
\* and Q the sum of squares of the n non-null values, std / |mean| > 2 iff
\* n * (n * Q - S * S) > 4 * (n - 1) * S * S.
HighVariance(t, j) ==
    LET col == Column(t, j)
        n == NRows(t) - IsnaSum(t, j)
        S == SumSeq([i \in 1..NRows(t) |-> col[i][2]])
        Q == SumSeq([i \in 1..NRows(t) |-> col[i][2] * col[i][2]])
    IN  /\ t.columns[j].dtype = "number"
        /\ n > 0
        /\ S # 0
        /\ n > 1
        /\ n * (n * Q - S * S) > 4 * (n - 1) * S * S

Anomaly(type, t, j) == [type |-> type, column |-> t.columns[j].name]

\* The entries one rule appends, in column order.
RECURSIVE AnomaliesOf(_, _, _)
AnomaliesOf(type, t, j) ==
    IF j > NCols(t) THEN <<>>
    ELSE (IF CASE type = "constant_column" -> ConstantColumn(t, j)
               [] type = "high_null_percentage" -> HighNullPercentage(t, j)
               [] OTHER -> HighVariance(t, j)
          THEN <<Anomaly(type, t, j)>> ELSE <<>>)
         \o AnomaliesOf(type, t, j + 1)

\* CSVValidator.detect_anomalies: three passes over the columns.
detect_anomalies(t) ==
    AnomaliesOf("constant_column", t, 1)
    \o AnomaliesOf("high_null_percentage", t, 1)
    \o AnomaliesOf("high_variance", t, 1)

\* null_pct and null_score of get_data_quality_score
TotalNullPct(t) == NpDiv(100 * IsnaSumSum(t), NRows(t) * NCols(t))
NullScore(t) == PyMax0(FSub(Whole(100), TotalNullPct(t)))

\* Mutant: duplicated(keep=False) as in detect_duplicates.
DupPct_MarkAll(t) == IF NRows(t) > 0
                     THEN NpDiv(100 * DuplicatedSum(t, None, "False"), NRows(t))
                     ELSE Whole(0)

\* dup_pct and dup_score
DupPct(t) == IF NRows(t) > 0
             THEN NpDiv(100 * DuplicatedSum(t, None, "first"), NRows(t))
             ELSE Whole(0)
DupScore(t) == PyMax0(FSub(Whole(100), DupPct(t)))

\* The column counts as a type issue when 100 * isna().sum() / len(df) > 10;
\* the Series pd.to_numeric returns is discarded.
TypeIssue(t, j) ==
    /\ t.columns[j].dtype = "object"
    /\ FGt(NpDiv(100 * IsnaSum(t, j), NRows(t)), Whole(10))

TypeIssues(t) == Cardinality({ j \in 1..NCols(t) : TypeIssue(t, j) })
TypeScore(t) == PyMax0(Whole(100 - TypeIssues(t) * 10))

AnomalyScore(t) == PyMax0(Whole(100 - Len(detect_anomalies(t)) * 15))

\* Mutant: the weights of the comments, 0.2 for the anomaly score.
OverallScore_CommentWeights(ns, ds, ts, as) ==
    FAdd(FAdd(FAdd(FMul(ns, 3, 10), FMul(ds, 2, 10)), FMul(ts, 2, 10)), FMul(as, 2, 10))

\* null_score * 0.3 + dup_score * 0.2 + type_score * 0.2 + anomaly_score * 0.3
OverallScore(ns, ds, ts, as) ==
    FAdd(FAdd(FAdd(FMul(ns, 3, 10), FMul(ds, 2, 10)), FMul(ts, 2, 10)), FMul(as, 3, 10))

\* Mutant: every duplicated row counts as an issue.
IssuesCount_PerDuplicate(t) ==
    Len(detect_anomalies(t))
    + DuplicatedSum(t, None, "first")
    + (IF FGt(TotalNullPct(t), Whole(0)) THEN 1 ELSE 0)

IssuesCount(t) ==
    Len(detect_anomalies(t))
    + (IF FGt(DupPct(t), Whole(0)) THEN 1 ELSE 0)
    + (IF FGt(TotalNullPct(t), Whole(0)) THEN 1 ELSE 0)

\* CSVValidator.get_data_quality_score; scores in hundredths.
get_data_quality_score(t) ==
    { [op |-> "get_data_quality_score",
       overall_score |-> ov,
       scores |-> [null_score |-> ns, duplicate_score |-> ds,
                   type_score |-> ts, anomaly_score |-> as],
       issues_count |-> IssuesCount(t)]
      : ov \in Round2(OverallScore(NullScore(t), DupScore(t), TypeScore(t), AnomalyScore(t))),
        ns \in Round2(NullScore(t)), ds \in Round2(DupScore(t)),
        ts \in Round2(TypeScore(t)), as \in Round2(AnomalyScore(t)) }

-----------------------------------------------------------------------------
(* utils.py: infer_column_type *)

\* A Series in run-length form: a sequence of [cell, count], count > 0, the
\* cells of different runs different.
DateStrings == {"2024-01-05"}
\* Read as a number by pd.to_numeric and as a date by pd.to_datetime.
NumericDateStrings == {"20240105"}

Word(i) == Str("w" \o ToString(i))

Run(c, k) == IF k > 0 THEN <<[cell |-> c, count |-> k]>> ELSE <<>>

\* i distinct words, the first one e more times
Words(i, e) == [k \in 1..i |-> [cell |-> Word(k), count |-> IF k = 1 THEN 1 + e ELSE 1]]

WordCounts == {0, 1, 2, 19, 20, 21}
ExtraCounts == {0, 379, 380, 381}

SeriesInputs ==
    { Run(Null, z) \o Run(Str("7"), a) \o Run(Str("2024-01-05"), b)
        \o Run(Str("20240105"), c) \o Words(d, e)
      : z \in 0..1, a \in 0..MaxNumeric, b \in 0..MaxDatetime, c \in 0..1,
        d \in WordCounts, e \in ExtraCounts }

SeriesLen(s) == SumSeq([k \in 1..Len(s) |-> s[k].count])

\* series.dropna()
dropna(s) == SelectIdx(s, [k \in 1..Len(s) |-> ~isna(s[k].cell)], 1)

\* pd.to_numeric(errors='coerce') / pd.to_datetime(errors='coerce') of one value
ToNumericNotna(c) ==
    c[1] = "num" \/ (c[1] = "str" /\ c[3] \in NumericStrings \cup NumericDateStrings)
ToDatetimeNotna(c) ==
    c[1] = "str" /\ c[3] \in DateStrings \cup NumericDateStrings

\* pd.to_numeric(non_null, errors='coerce').notna().sum()
NumericCount(s) == SumSeq([k \in 1..Len(s) |-> IF ToNumericNotna(s[k].cell) THEN s[k].count ELSE 0])
DatetimeCount(s) == SumSeq([k \in 1..Len(s) |-> IF ToDatetimeNotna(s[k].cell) THEN s[k].count ELSE 0])

\* len(non_null.unique())
UniqueCount(s) == Cardinality({ s[k].cell : k \in 1..Len(s) })

\* Mutant: x / len(non_null) >= 0.8
OverThreshold_Inclusive(x, n) == ~FGt(Frac(8, 10), NpDiv(x, n))

\* x / len(non_null) > 0.8
OverThreshold(x, n) == FGt(NpDiv(x, n), Frac(8, 10))

\* Mutant: len(non_null.unique()) <= 20
LowCardinality_Inclusive(u, n) == FGt(Frac(5, 100), NpDiv(u, n)) \/ u <= 20

\* unique_ratio < 0.05 or len(non_null.unique()) < 20
LowCardinality(u, n) == FGt(Frac(5, 100), NpDiv(u, n)) \/ u < 20

infer_column_type(s) ==
    LET non_null == dropna(s)
        n == SeriesLen(non_null)
    IN  IF n = 0 THEN "unknown"
        ELSE IF OverThreshold(NumericCount(non_null), n) THEN "numeric"
        ELSE IF OverThreshold(DatetimeCount(non_null), n) THEN "datetime"
        ELSE IF LowCardinality(UniqueCount(non_null), n) THEN "categorical"
        ELSE "text"

-----------------------------------------------------------------------------
(* Python str methods, character by character *)

UpperCase == "ABCDEFGHIJKLMNOPQRSTUVWXYZ"
LowerCase == "abcdefghijklmnopqrstuvwxyz"
Digits == "0123456789"
WhiteSpace == {" ", "\t"}

Char(s, i) == SubSeq(s, i, i)
In(c, alphabet) == \E i \in 1..Len(alphabet) : Char(alphabet, i) = c
IndexIn(c, alphabet) == CHOOSE i \in 1..Len(alphabet) : Char(alphabet, i) = c

isspace(c) == c \in WhiteSpace
isalpha(c) == In(c, UpperCase) \/ In(c, LowerCase)
isalnum(c) == isalpha(c) \/ In(c, Digits)

lower1(c) == IF In(c, UpperCase) THEN Char(LowerCase, IndexIn(c, UpperCase)) ELSE c
upper1(c) == IF In(c, LowerCase) THEN Char(UpperCase, IndexIn(c, LowerCase)) ELSE c

\* ''.join(f(s, i) for i in range(len(s)))
RECURSIVE JoinFrom(_, _, _)
JoinFrom(f(_, _), s, i) ==
    IF i > Len(s) THEN "" ELSE f(s, i) \o JoinFrom(f, s, i + 1)

\* str.lower, str.upper
lower(s) == LET f(x, i) == lower1(Char(x, i)) IN JoinFrom(f, s, 1)
upper(s) == LET f(x, i) == upper1(Char(x, i)) IN JoinFrom(f, s, 1)

\* str.title: a letter starts a word when no letter precedes it.
title(s) ==
    LET f(x, i) == IF i > 1 /\ isalpha(Char(x, i - 1))
                   THEN lower1(Char(x, i)) ELSE upper1(Char(x, i))
    IN  JoinFrom(f, s, 1)

\* str.strip
strip(s) ==
    LET inner == { i \in 1..Len(s) : ~isspace(Char(s, i)) }
        first == CHOOSE i \in inner : \A k \in inner : i <= k
        last == CHOOSE i \in inner : \A k \in inner : k <= i
    IN  IF inner = {} THEN "" ELSE SubSeq(s, first, last)

\* str.replace(' ', '_')
replace_space(s) ==
    LET f(x, i) == IF Char(x, i) = " " THEN "_" ELSE Char(x, i) IN JoinFrom(f, s, 1)

\* Mutant: only the first character that is neither alphanumeric nor '_' is
\* dropped.
keep_alnum_DropFirst(s) ==
    LET bad == { i \in 1..Len(s) : ~(isalnum(Char(s, i)) \/ Char(s, i) = "_") }
        first == CHOOSE i \in bad : \A k \in bad : i <= k
    IN  IF bad = {} THEN s ELSE SubSeq(s, 1, first - 1) \o SubSeq(s, first + 1, Len(s))

\* ''.join(c for c in s if c.isalnum() or c == '_')
keep_alnum(s) ==
    LET f(x, i) == IF isalnum(Char(x, i)) \/ Char(x, i) = "_" THEN Char(x, i) ELSE ""
    IN  JoinFrom(f, s, 1)

-----------------------------------------------------------------------------
(* cleaner.py *)

\* The (subset, keep) arguments callers pass.
DedupArgs ==
    { <<None, "first">>, <<None, "last">>, <<None, "False">>,
      <<(<<"b">>), "first">>, <<(<<"zz">>), "first">> }

Call(op, keep, subset, removed, raised) ==
    [op |-> op, keep |-> keep, subset |-> subset, removed |-> removed, raised |-> raised,
     fill_value |-> None, threshold |-> None, dtypes |-> <<>>]

\* The objects behind the names: the caller's DataFrame, and the new objects
\* an assignment to self.df and to self.original_df create.  An operation
\* that replaces self.df leaves it the only name of its object.
CallerObject == 0
NewDf == 1
NewOriginal == 2

\* Mutant: the assignment keeps a reference to o instead of copying it.
copy_Reference(o, new) == o

\* DataFrame.copy(): a new object with the data of o.
copy(o, new) == new

\* An operation that assigns a new DataFrame to self.df.
Rebind(new) ==
    /\ df' = new
    /\ id' = [id EXCEPT !.df = NewDf]
    /\ UNCHANGED <<original_df, caller_df>>

\* An operation that writes into the object self.df refers to: every name of
\* that object shows the new data.
InPlace(new) ==
    /\ df' = new
    /\ original_df' = IF id.original_df = id.df THEN new ELSE original_df
    /\ caller_df' = IF id.caller_df = id.df THEN new ELSE caller_df
    /\ id' = id

\* CSVCleaner.__init__
Construct(t) ==
    /\ caller_df = t
    /\ df = t
    /\ original_df = t
    /\ id = [caller_df |-> CallerObject,
             df |-> copy(CallerObject, NewDf),
             original_df |-> copy(CallerObject, NewOriginal)]
    /\ changes = <<>>
    /\ last_clean = Call("__init__", "", None, 0, FALSE)
    /\ result = NoResult

\* Mutant: the working table is restored, the change log is kept.
reset_KeepChanges ==
    /\ df' = original_df
    /\ id' = [id EXCEPT !.df = copy(id.original_df, NewDf)]
    /\ changes' = changes
    /\ last_clean' = Call("reset", "", None, 0, FALSE)
    /\ result' = NoResult
    /\ UNCHANGED <<original_df, caller_df, series, inferred, obj, line>>

\* CSVCleaner.reset
reset ==
    /\ df' = original_df
    /\ id' = [id EXCEPT !.df = copy(id.original_df, NewDf)]
    /\ changes' = <<>>
    /\ last_clean' = Call("reset", "", None, 0, FALSE)
    /\ result' = NoResult
    /\ UNCHANGED <<original_df, caller_df, series, inferred, obj, line>>

\* CSVCleaner.remove_duplicates.  A subset naming no column of the frame makes
\* drop_duplicates raise KeyError before anything is assigned; on an empty
\* frame (no row or no column) drop_duplicates returns a copy before it looks
\* at the subset.
remove_duplicates(subset, keep) ==
    /\ result' = NoResult
    /\ UNCHANGED <<series, inferred, obj, line>>
    /\ IF ~KnownNames(df, subset) /\ NRows(df) > 0 /\ NCols(df) > 0
       THEN /\ last_clean' = Call("remove_duplicates", keep, subset, 0, TRUE)
            /\ UNCHANGED <<df, original_df, caller_df, id, changes>>
       ELSE LET initial_rows == NRows(df)
                new == DropDuplicates(df, subset, keep)
                removed == initial_rows - NRows(new)
            IN  /\ Rebind(new)
                /\ changes' = IF removed > 0
                              THEN Append(changes, "Removed " \o ToString(removed) \o " duplicate rows")
                              ELSE changes
                /\ last_clean' = Call("remove_duplicates", keep, subset, removed, FALSE)

\* The change log may grow to MaxChanges entries before reset is called.
MaxChanges == 2
CanLog == Len(changes) < MaxChanges

\* A cleaner call that is not remove_duplicates: its string option (method or
\* case), its columns argument, the rows, columns or nulls it counted, and
\* whether it raised.
Cleaned(op, option, columns, count, raised) ==
    /\ last_clean' = Call(op, option, columns, count, raised)
    /\ result' = NoResult
    /\ UNCHANGED <<series, inferred, obj, line>>

\* The call raised before it assigned anything.
Raised(op, option, columns) ==
    /\ Cleaned(op, option, columns, 0, TRUE)
    /\ UNCHANGED <<df, original_df, caller_df, id, changes>>

Log(entry) == changes' = Append(changes, entry)

\* df.dropna(how='all')
EmptyRow(t, i) == \A j \in 1..NCols(t) : isna(t.rows[i][j])
DropEmptyRows(t) ==
    [t EXCEPT !.rows = SelectIdx(t.rows, [i \in 1..NRows(t) |-> ~EmptyRow(t, i)], 1)]

\* Mutant: the entry is appended whatever the number of rows removed.
remove_empty_rows_AlwaysLogs ==
    LET new == DropEmptyRows(df)
        removed == NRows(df) - NRows(new)
    IN  /\ CanLog
        /\ Rebind(new)
        /\ Log("Removed " \o ToString(removed) \o " completely empty rows")
        /\ Cleaned("remove_empty_rows", "", None, removed, FALSE)

\* CSVCleaner.remove_empty_rows
remove_empty_rows ==
    LET initial_rows == NRows(df)
        new == DropEmptyRows(df)
        removed == initial_rows - NRows(new)
    IN  /\ CanLog
        /\ Rebind(new)
        /\ changes' = IF removed > 0
                      THEN Append(changes, "Removed " \o ToString(removed)
                                           \o " completely empty rows")
                      ELSE changes
        /\ Cleaned("remove_empty_rows", "", None, removed, FALSE)

\* Mutant: the columns after the first all-null column go with it.
DropEmptyColumns_Truncate(t) ==
    LET empty == { j \in 1..NCols(t) : \A i \in 1..NRows(t) : isna(t.rows[i][j]) }
        keep == [j \in 1..NCols(t) |-> \A k \in empty : j < k]
    IN  [columns |-> SelectIdx(t.columns, keep, 1),
         rows |-> [i \in 1..NRows(t) |-> SelectIdx(t.rows[i], keep, 1)]]

\* df.dropna(axis=1, how='all')
EmptyColumn(t, j) == \A i \in 1..NRows(t) : isna(t.rows[i][j])
DropEmptyColumns(t) ==
    LET keep == [j \in 1..NCols(t) |-> ~EmptyColumn(t, j)]
    IN  [columns |-> SelectIdx(t.columns, keep, 1),
         rows |-> [i \in 1..NRows(t) |-> SelectIdx(t.rows[i], keep, 1)]]

\* CSVCleaner.remove_empty_columns
remove_empty_columns ==
    LET initial_cols == NCols(df)
        new == DropEmptyColumns(df)
        removed == initial_cols - NCols(new)
    IN  /\ CanLog
        /\ Rebind(new)
        /\ changes' = IF removed > 0
                      THEN Append(changes, "Removed " \o ToString(removed)
                                           \o " completely empty columns")
                      ELSE changes
        /\ Cleaned("remove_empty_columns", "", None, removed, FALSE)

\* col in self.df.columns, and the position of the column of that name
HasColumn(t, name) == \E j \in 1..NCols(t) : t.columns[j].name = name
ColumnIdx(t, name) == CHOOSE j \in 1..NCols(t) : t.columns[j].name = name

\* self.df[name] is a DataFrame, not a Series, when the name occurs twice.
\* Calls that index such a name are outside the model.
Ambiguous(t, columns) ==
    \E k \in 1..Len(columns) :
        Cardinality({ j \in 1..NCols(t) : t.columns[j].name = columns[k] }) > 1

\* df.select_dtypes(include=[dtype]).columns
SelectDtypes(t, dtype) ==
    LET keep == [j \in 1..NCols(t) |-> t.columns[j].dtype = dtype]
        cols == SelectIdx(t.columns, keep, 1)
    IN  [k \in 1..Len(cols) |-> cols[k].name]

\* self.df[name] = col, of the given dtype
SetColumn(t, j, col, dtype) ==
    [columns |-> [t.columns EXCEPT ![j].dtype = dtype],
     rows |-> [i \in 1..NRows(t) |-> [t.rows[i] EXCEPT ![j] = col[i]]]]

\* Series.str exists for an object column whose non-null values are not all
\* numbers; on any other column the accessor raises AttributeError.
HasStr(t, j) ==
    /\ t.columns[j].dtype = "object"
    /\ \/ \A i \in 1..NRows(t) : isna(t.rows[i][j])
       \/ \E i \in 1..NRows(t) : t.rows[i][j][1] = "str"

\* Series.str.<method>(): a value that is not a string becomes missing.
StrMethod(f(_), c) == IF c[1] = "str" THEN Str(f(c[3])) ELSE Null

\* for col in columns: if col in self.df.columns: self.df[col] = self.df[col].str.<method>()
\* from the k-th name on; the loop ends where the accessor raises.
RECURSIVE StrLoop(_, _, _, _)
StrLoop(f(_), t, columns, k) ==
    IF k > Len(columns) THEN [df |-> t, raised |-> FALSE]
    ELSE IF ~HasColumn(t, columns[k]) THEN StrLoop(f, t, columns, k + 1)
    ELSE LET j == ColumnIdx(t, columns[k])
         IN  IF ~HasStr(t, j) THEN [df |-> t, raised |-> TRUE]
             ELSE StrLoop(f, SetColumn(t, j, [i \in 1..NRows(t) |-> StrMethod(f, t.rows[i][j])],
                                       "object"),
                          columns, k + 1)

\* The columns arguments callers pass.
TrimArgs == { None, <<"a_b">>, <<"zz">> }

\* Mutant: the entry is appended only when a cell changed.
trim_whitespace_LogIfChanged(columns) ==
    LET cols == IF columns = None THEN SelectDtypes(df, "object") ELSE columns
        r == StrLoop(strip, df, cols, 1)
    IN  /\ CanLog
        /\ ~Ambiguous(df, cols)
        /\ InPlace(r.df)
        /\ changes' = IF r.raised \/ r.df = df THEN changes
                      ELSE Append(changes, "Trimmed whitespace from "
                                           \o ToString(Len(cols)) \o " columns")
        /\ Cleaned("trim_whitespace", "", columns, Len(cols), r.raised)

\* CSVCleaner.trim_whitespace
trim_whitespace(columns) ==
    LET cols == IF columns = None THEN SelectDtypes(df, "object") ELSE columns
        r == StrLoop(strip, df, cols, 1)
    IN  /\ CanLog
        /\ ~Ambiguous(df, cols)
        /\ InPlace(r.df)
        /\ changes' = IF r.raised THEN changes
                      ELSE Append(changes, "Trimmed whitespace from "
                                           \o ToString(Len(cols)) \o " columns")
        /\ Cleaned("trim_whitespace", "", columns, Len(cols), r.raised)

\* The (columns, case) arguments callers pass.
NormalizeArgs ==
    { <<None, "lower">>, <<None, "title">>, <<None, "snake">>, <<(<<"a_b">>), "upper">> }

\* CSVCleaner.normalize_text_case; a case that is none of the three leaves
\* every column as it is.
normalize_text_case(columns, case) ==
    LET cols == IF columns = None THEN SelectDtypes(df, "object") ELSE columns
        r == CASE case = "lower" -> StrLoop(lower, df, cols, 1)
               [] case = "upper" -> StrLoop(upper, df, cols, 1)
               [] case = "title" -> StrLoop(title, df, cols, 1)
               [] OTHER -> [df |-> df, raised |-> FALSE]
    IN  /\ CanLog
        /\ ~Ambiguous(df, cols)
        /\ InPlace(r.df)
        /\ changes' = IF r.raised THEN changes
                      ELSE Append(changes, "Normalized text case to " \o case \o " in "
                                           \o ToString(Len(cols)) \o " columns")
        /\ Cleaned("normalize_text_case", case, columns, Len(cols), r.raised)

\* The value of a numeric cell as a fraction, and the cell of a fraction.
Val(c) == <<c[2], c[4]>>
Flt(x) == <<"num", x[1], "", x[2]>>
FLe(x, y) == x[1] * y[2] <= y[1] * x[2]

\* The characters in code point order, and str.__lt__.
CodePoints == "\t !" \o Digits \o UpperCase \o "_" \o LowerCase
RECURSIVE StrLess(_, _, _)
StrLess(a, b, i) ==
    IF i > Len(b) THEN FALSE
    ELSE IF i > Len(a) THEN TRUE
    ELSE IF Char(a, i) = Char(b, i) THEN StrLess(a, b, i + 1)
    ELSE IndexIn(Char(a, i), CodePoints) < IndexIn(Char(b, i), CodePoints)

\* The non-null cells of column j, in row order.
NonNull(t, j) ==
    SelectIdx(Column(t, j), [i \in 1..NRows(t) |-> ~isna(t.rows[i][j])], 1)

\* The numbers of s in ascending order.
RECURSIVE SortNumbers(_)
SortNumbers(s) ==
    IF Len(s) = 0 THEN <<>>
    ELSE LET m == CHOOSE i \in 1..Len(s) :
                    \A k \in 1..Len(s) : FLe(s[i], s[k]) /\ (FLe(s[k], s[i]) => i <= k)
         IN  <<s[m]>> \o SortNumbers(SelectIdx(s, [k \in 1..Len(s) |-> k # m], 1))

RECURSIVE FSum(_)
FSum(s) == IF Len(s) = 0 THEN Whole(0) ELSE FAdd(s[1], FSum(Tail(s)))

\* Series.mean(): nan without a value
Mean(t, j) ==
    LET v == NonNull(t, j)
    IN  IF Len(v) = 0 THEN NaN ELSE FMul(FSum([k \in 1..Len(v) |-> Val(v[k])]), 1, Len(v))

\* Series.quantile(p/4), linear interpolation between the two nearest ranks.
Quantile(t, j, p) ==
    LET v == NonNull(t, j)
        s == SortNumbers([k \in 1..Len(v) |-> Val(v[k])])
        lo == ((Len(s) - 1) * p) \div 4
        rest == ((Len(s) - 1) * p) % 4
    IN  IF Len(s) = 0 THEN NaN
        ELSE IF rest = 0 THEN s[lo + 1]
        ELSE FAdd(s[lo + 1], FMul(FSub(s[lo + 2], s[lo + 1]), rest, 4))

\* Series.median()
Median(t, j) == Quantile(t, j, 2)

\* Series.mode()[0]: the most frequent non-null values are sorted; values
\* that do not compare (numbers with strings) stay in hash table order, so
\* any of them may come first.  The empty set: mode() is empty.
Mode0(t, j) ==
    LET v == NonNull(t, j)
        count(c) == Cardinality({ k \in 1..Len(v) : v[k] = c })
        modes == { c \in Range(v) : \A d \in Range(v) : count(d) <= count(c) }
        less(c, d) == IF c[1] = "str" THEN StrLess(c[3], d[3], 1)
                      ELSE ~FLe(Val(d), Val(c))
    IN  IF \E c, d \in modes : c[1] # d[1] THEN modes
        ELSE { c \in modes : \A d \in modes : ~less(d, c) }

\* Series.fillna(method='ffill') and 'bfill': the nearest value before
\* (after) a missing cell; a cell with no such value stays missing.
FFill(col) ==
    [i \in 1..Len(col) |->
        LET prev == { k \in 1..(i - 1) : ~isna(col[k]) }
        IN  IF ~isna(col[i]) \/ prev = {} THEN col[i]
            ELSE col[CHOOSE k \in prev : \A m \in prev : m <= k]]
BFill(col) ==
    [i \in 1..Len(col) |->
        LET next == { k \in (i + 1)..Len(col) : ~isna(col[k]) }
        IN  IF ~isna(col[i]) \/ next = {} THEN col[i]
            ELSE col[CHOOSE k \in next : \A m \in next : k <= m]]

\* Series.fillna(v): nan fills nothing; a string makes a numeric column object.
FillNa(t, j, v) ==
    IF isna(v) THEN t
    ELSE SetColumn(t, j, [i \in 1..NRows(t) |-> IF isna(t.rows[i][j]) THEN v ELSE t.rows[i][j]],
                   IF v[1] = "str" THEN "object" ELSE t.columns[j].dtype)

\* Mutant: method 'value' fills the first missing cell of the column only.
FillColumn_FirstOnly(t, j, method, fill_value) ==
    LET first == CHOOSE i \in 1..NRows(t) :
                    isna(t.rows[i][j]) /\ \A k \in 1..(i - 1) : ~isna(t.rows[k][j])
    IN  IF IsnaSum(t, j) = 0 \/ method # "value" \/ fill_value = None THEN {t}
        ELSE { [t EXCEPT !.rows[first][j] = fill_value] }

\* One pass of the loop of fill_missing_values over column j: the frames it
\* may leave (self.df[col].fillna(..., inplace=True) writes into the frame).
FillColumn(t, j, method, fill_value) ==
    LET numeric == t.columns[j].dtype = "number"
    IN  IF IsnaSum(t, j) = 0 THEN {t}
        ELSE CASE method = "mean" ->
                    IF numeric /\ ~IsNaN(Mean(t, j)) THEN {FillNa(t, j, Flt(Mean(t, j)))} ELSE {t}
               [] method = "median" ->
                    IF numeric /\ ~IsNaN(Median(t, j)) THEN {FillNa(t, j, Flt(Median(t, j)))} ELSE {t}
               [] method = "mode" ->
                    IF Mode0(t, j) = {} THEN {t} ELSE { FillNa(t, j, v) : v \in Mode0(t, j) }
               [] method = "forward_fill" ->
                    {SetColumn(t, j, FFill(Column(t, j)), t.columns[j].dtype)}
               [] method = "backward_fill" ->
                    {SetColumn(t, j, BFill(Column(t, j)), t.columns[j].dtype)}
               [] method = "value" /\ fill_value # None -> {FillNa(t, j, fill_value)}
               [] OTHER -> {t}

\* for col in columns, from the k-th name on
RECURSIVE FillLoop(_, _, _, _, _)
FillLoop(ts, columns, k, method, fill_value) ==
    IF k > Len(columns) THEN ts
    ELSE FillLoop(UNION { FillColumn(t, ColumnIdx(t, columns[k]), method, fill_value) : t \in ts },
                  columns, k + 1, method, fill_value)

\* self.df[columns].isna().sum().sum()
NullsIn(t, columns) == SumSeq([k \in 1..Len(columns) |-> IsnaSum(t, ColumnIdx(t, columns[k]))])

ColumnNames(t) == [j \in 1..NCols(t) |-> t.columns[j].name]

\* The (method, columns, fill_value) arguments callers pass.
FillArgs ==
    { <<"mean", None, None>>, <<"median", <<"n">>, None>>, <<"mode", None, None>>,
      <<"forward_fill", None, None>>, <<"backward_fill", <<"a_b">>, None>>,
      <<"value", None, Num(0)>>, <<"value", None, None>>, <<"constant", None, Num(0)>>,
      <<"value", <<"A B", "a_b">>, Num(0)>>, <<"value", <<"zz">>, Num(0)>> }

\* CSVCleaner.fill_missing_values.  self.df[columns] raises KeyError for a
\* name that is no column, before anything is filled.
fill_missing_values(method, columns, fill_value) ==
    LET cols == IF columns = None THEN ColumnNames(df) ELSE columns
    IN  /\ CanLog
        /\ ~Ambiguous(df, cols)
        /\ IF ~KnownNames(df, cols)
           THEN /\ Raised("fill_missing_values", method, columns)
           ELSE \E new \in FillLoop({df}, cols, 1, method, fill_value) :
                  LET initial_nulls == NullsIn(df, cols)
                      final_nulls == NullsIn(new, cols)
                      filled == initial_nulls - final_nulls
                  IN  /\ InPlace(new)
                      /\ changes' = IF filled > 0
                                    THEN Append(changes, "Filled " \o ToString(filled)
                                                \o " missing values using " \o method)
                                    ELSE changes
                      /\ last_clean' = [Call("fill_missing_values", method, columns, filled, FALSE)
                                          EXCEPT !.fill_value = fill_value]
                      /\ result' = NoResult
                      /\ UNCHANGED <<series, inferred, obj, line>>

\* new_col of standardize_column_names
StandardName(col) == keep_alnum(replace_space(strip(lower(col))))

\* df.rename(columns=new_columns): names may coincide afterwards.
Rename(t, f(_)) ==
    [t EXCEPT !.columns = [j \in 1..NCols(t) |-> [t.columns[j] EXCEPT !.name = f(t.columns[j].name)]]]

\* CSVCleaner.standardize_column_names
standardize_column_names ==
    /\ CanLog
    /\ InPlace(Rename(df, StandardName))
    /\ Log("Standardized column names")
    /\ Cleaned("standardize_column_names", "", None, 0, FALSE)

\* x * y
FTimes(x, y) == IF IsNaN(x) \/ IsNaN(y) THEN NaN ELSE Frac(x[1] * y[1], x[2] * y[2])

FilterRows(t, keep) == [t EXCEPT !.rows = SelectIdx(t.rows, keep, 1)]

\* Mutant: a row with a missing value passes the comparison.
IqrMask_KeepNulls(t, j, threshold) ==
    LET Q1 == Quantile(t, j, 1)
        Q3 == Quantile(t, j, 3)
        IQR == FSub(Q3, Q1)
        lower_bound == FSub(Q1, FTimes(threshold, IQR))
        upper_bound == FAdd(Q3, FTimes(threshold, IQR))
    IN  [i \in 1..NRows(t) |->
            \/ isna(t.rows[i][j])
            \/ /\ ~IsNaN(lower_bound)
               /\ FLe(lower_bound, Val(t.rows[i][j]))
               /\ FLe(Val(t.rows[i][j]), upper_bound)]

\* (col >= Q1 - threshold * IQR) & (col <= Q3 + threshold * IQR): a comparison
\* with a missing value or a nan bound is False.
IqrMask(t, j, threshold) ==
    LET Q1 == Quantile(t, j, 1)
        Q3 == Quantile(t, j, 3)
        IQR == FSub(Q3, Q1)
        lower_bound == FSub(Q1, FTimes(threshold, IQR))
        upper_bound == FAdd(Q3, FTimes(threshold, IQR))
    IN  [i \in 1..NRows(t) |->
            /\ ~isna(t.rows[i][j])
            /\ ~IsNaN(lower_bound)
            /\ FLe(lower_bound, Val(t.rows[i][j]))
            /\ FLe(Val(t.rows[i][j]), upper_bound)]

\* np.abs(stats.zscore(col.fillna(col.mean()))) < threshold, the deviation
\* that of the population: with v the variance, |x - m| / sqrt(v) < threshold
\* iff (x - m)^2 < threshold^2 * v when v > 0; v = 0 or a missing value
\* gives nan, which is below no threshold.  Where the two sides are equal the
\* rounding of the doubles decides, so either answer is possible.
ZscoreMasks(t, j, threshold) ==
    LET n == NRows(t)
        m0 == Mean(t, j)
        x == [i \in 1..n |-> IF isna(t.rows[i][j]) THEN m0 ELSE Val(t.rows[i][j])]
        m == IF IsNaN(m0) THEN NaN ELSE FMul(FSum(x), 1, n)
        sq(i) == FTimes(FSub(x[i], m), FSub(x[i], m))
        v == IF IsNaN(m) THEN NaN ELSE FMul(FSum([i \in 1..n |-> sq(i)]), 1, n)
        bound == FTimes(FTimes(threshold, threshold), v)
        nan == IsNaN(v) \/ v[1] = 0
    IN  { keep \in [1..n -> BOOLEAN] :
            \A i \in 1..n :
                /\ (nan \/ FGt(sq(i), bound)) => ~keep[i]
                /\ (~nan /\ FGt(bound, sq(i))) => keep[i] }

\* Mutant: the bounds of every column are those of the frame the call began
\* with.
OutlierLoop_InitialBounds(t, assigned, columns, k, method, threshold) ==
    LET known == { j \in 1..NCols(t) : \E m \in k..Len(columns) : t.columns[j].name = columns[m] }
    IN  IF method # "iqr" \/ known = {} \/ \E j \in known : t.columns[j].dtype # "number"
        THEN { [df |-> t, assigned |-> assigned, raised |-> FALSE] }
        ELSE { [df |-> FilterRows(t, [i \in 1..NRows(t) |->
                                        \A j \in known : IqrMask(t, j, threshold)[i]]),
                assigned |-> TRUE, raised |-> FALSE] }

\* for col in columns of remove_outliers, from the k-th name on: the frames
\* the loop may end with, whether it assigned self.df, and whether it raised
\* (quantile and zscore raise TypeError on a column that is not numeric).
RECURSIVE OutlierLoop(_, _, _, _, _, _)
OutlierLoop(t, assigned, columns, k, method, threshold) ==
    IF k > Len(columns) \/ method \notin {"iqr", "zscore"}
    THEN { [df |-> t, assigned |-> assigned, raised |-> FALSE] }
    ELSE IF ~HasColumn(t, columns[k])
    THEN OutlierLoop(t, assigned, columns, k + 1, method, threshold)
    ELSE LET j == ColumnIdx(t, columns[k])
         IN  IF t.columns[j].dtype # "number"
             THEN { [df |-> t, assigned |-> assigned, raised |-> TRUE] }
             ELSE IF method = "iqr"
             THEN OutlierLoop(FilterRows(t, IqrMask(t, j, threshold)), TRUE,
                              columns, k + 1, method, threshold)
             ELSE UNION { OutlierLoop(FilterRows(t, keep), TRUE, columns, k + 1, method, threshold)
                          : keep \in ZscoreMasks(t, j, threshold) }

\* The (columns, method, threshold) arguments callers pass.
DefaultThreshold == <<3, 2>>
OutlierArgs ==
    { <<None, "iqr", DefaultThreshold>>, <<None, "zscore", DefaultThreshold>>,
      <<None, "zscore", Whole(3)>>, <<None, "mad", DefaultThreshold>>,
      <<(<<"zz", "A B">>), "iqr", DefaultThreshold>> }

\* CSVCleaner.remove_outliers
remove_outliers(columns, method, threshold) ==
    LET cols == IF columns = None THEN SelectDtypes(df, "number") ELSE columns
        initial_rows == NRows(df)
    IN  /\ CanLog
        /\ ~Ambiguous(df, cols)
        /\ \E r \in OutlierLoop(df, FALSE, cols, 1, method, threshold) :
             LET removed == initial_rows - NRows(r.df)
             IN  /\ IF r.assigned THEN Rebind(r.df)
                    ELSE UNCHANGED <<df, original_df, caller_df, id>>
                 /\ changes' = IF ~r.raised /\ removed > 0
                               THEN Append(changes, "Removed " \o ToString(removed)
                                           \o " outlier rows using " \o method)
                               ELSE changes
                 /\ last_clean' = [Call("remove_outliers", method, columns,
                                        IF r.raised THEN 0 ELSE removed, r.raised)
                                     EXCEPT !.threshold = threshold]
                 /\ result' = NoResult
                 /\ UNCHANGED <<series, inferred, obj, line>>

\* int(s) of a string of digits
RECURSIVE ParseDigits(_, _)
ParseDigits(s, n) ==
    IF Len(s) = 0 THEN n
    ELSE ParseDigits(SubSeq(s, 2, Len(s)), 10 * n + IndexIn(Char(s, 1), Digits) - 1)

\* pd.to_numeric(errors='coerce') of one value
ToNumeric(c) ==
    IF c[1] = "str"
    THEN (IF ToNumericNotna(c) THEN Num(ParseDigits(c[3], 0)) ELSE Null)
    ELSE c

\* str(x) of one value of a column; float tells whether a numeric column is
\* float64 (1 reads "1.0") or int64 (1 reads "1").
ToStr(c, dtype, float) ==
    CASE c[1] = "str" -> c
      [] c[1] = "null" -> Str("nan")
      [] OTHER -> Str(ToString(c[2]) \o (IF dtype = "number" /\ float THEN ".0" ELSE ""))

\* The numbers of column j are whole.
Whole1(t, j) == \A i \in 1..NRows(t) : t.rows[i][j][4] = 1

\* int(x) of one value raises for a missing value and for a string that is
\* no number.
IntFails(c) == c[1] = "null" \/ (c[1] = "str" /\ ~ToNumericNotna(c))
Trunc(c) == IF c[1] = "str" THEN Num(ParseDigits(c[3], 0))
            ELSE LET q == Abs(c[2]) \div c[4] IN Num(IF c[2] < 0 THEN -q ELSE q)

\* str(e) of the exception astype raises
ExcText(t, j, dtype) ==
    IF dtype # "int" THEN "data type '" \o dtype \o "' not understood"
    ELSE IF t.columns[j].dtype = "number"
    THEN "Cannot convert non-finite values (NA or inf) to integer"
    ELSE LET bad == CHOOSE i \in 1..NRows(t) :
                       IntFails(t.rows[i][j]) /\ \A k \in 1..(i - 1) : ~IntFails(t.rows[k][j])
         IN  IF isna(t.rows[bad][j]) THEN "cannot convert float NaN to integer"
             ELSE "invalid literal for int() with base 10: '" \o t.rows[bad][j][3] \o "'"

\* One pass of the loop of convert_dtypes over column j: the frames it may
\* leave, with the entry the except branch logs.
ConvertColumn(t, j, dtype) ==
    LET col == Column(t, j)
        n == NRows(t)
        warn == { [df |-> t,
                   log |-> <<"Warning: Could not convert " \o t.columns[j].name \o " to "
                             \o dtype \o ": " \o ExcText(t, j, dtype)>>] }
        done(new, dt) == [df |-> SetColumn(t, j, new, dt), log |-> <<>>]
    IN  CASE dtype = "numeric" -> { done([i \in 1..n |-> ToNumeric(col[i])], "number") }
          [] dtype \in {"string", "object"} ->
                { done([i \in 1..n |-> ToStr(col[i], t.columns[j].dtype, float)], "object")
                  : float \in { b \in BOOLEAN : IsnaSum(t, j) > 0 => b } }
          [] dtype = "int" ->
                IF \E i \in 1..n : IntFails(col[i]) THEN warn
                ELSE { done([i \in 1..n |-> Trunc(col[i])], "number") }
          [] OTHER -> warn

\* Mutant: the loop ends at the first conversion that fails.
RECURSIVE ConvertLoop_StopAtFailure(_, _, _)
ConvertLoop_StopAtFailure(rs, columns_types, k) ==
    IF k > Len(columns_types) THEN rs
    ELSE ConvertLoop_StopAtFailure(
           UNION { IF ~HasColumn(r.df, columns_types[k][1]) \/ r.log # <<>> THEN {r}
                   ELSE { [df |-> c.df, log |-> r.log \o c.log]
                          : c \in ConvertColumn(r.df, ColumnIdx(r.df, columns_types[k][1]),
                                                columns_types[k][2]) }
                   : r \in rs },
           columns_types, k + 1)

\* for col, dtype in columns_types.items(), from the k-th item on
RECURSIVE ConvertLoop(_, _, _)
ConvertLoop(rs, columns_types, k) ==
    IF k > Len(columns_types) THEN rs
    ELSE ConvertLoop(
           UNION { IF ~HasColumn(r.df, columns_types[k][1]) THEN {r}
                   ELSE { [df |-> c.df, log |-> r.log \o c.log]
                          : c \in ConvertColumn(r.df, ColumnIdx(r.df, columns_types[k][1]),
                                                columns_types[k][2]) }
                   : r \in rs },
           columns_types, k + 1)

\* The columns_types dictionaries callers pass, as lists of items.
ConvertArgs ==
    { << <<"A B", "numeric">> >>, << <<"A B", "string">> >>, << <<"a_b", "numeric">> >>,
      << <<"a_b", "float128x">> >>, << <<"zz", "numeric">> >>,
      << <<"A B", "int">>, <<"a_b", "int">> >> }

ConvertNames(columns_types) == [k \in 1..Len(columns_types) |-> columns_types[k][1]]

\* CSVCleaner.convert_dtypes.  str(x) of a number that is not whole is outside
\* the model.
convert_dtypes(columns_types) ==
    /\ Len(changes) + Len(columns_types) <= MaxChanges
    /\ ~Ambiguous(df, ConvertNames(columns_types))
    /\ \A k \in 1..Len(columns_types) :
          (columns_types[k][2] \in {"string", "object"} /\ HasColumn(df, columns_types[k][1]))
             => Whole1(df, ColumnIdx(df, columns_types[k][1]))
    /\ \E r \in ConvertLoop({ [df |-> df, log |-> <<>>] }, columns_types, 1) :
          /\ InPlace(r.df)
          /\ changes' = changes \o r.log
          /\ last_clean' = [Call("convert_dtypes", "", ConvertNames(columns_types), Len(r.log), FALSE)
                              EXCEPT !.dtypes = [k \in 1..Len(columns_types) |-> columns_types[k][2]]]
          /\ result' = NoResult
          /\ UNCHANGED <<series, inferred, obj, line>>

-----------------------------------------------------------------------------
(* The validator's calls on the working table *)

DetectDuplicates ==
    /\ result' \in detect_duplicates(df)
    /\ UNCHANGED <<df, original_df, caller_df, id, changes, last_clean, series, inferred, obj, line>>

DetectAnomalies ==
    /\ result' = [op |-> "detect_anomalies", anomalies |-> detect_anomalies(df)]
    /\ UNCHANGED <<df, original_df, caller_df, id, changes, last_clean, series, inferred, obj, line>>

GetDataQualityScore ==
    /\ result' \in get_data_quality_score(df)
    /\ UNCHANGED <<df, original_df, caller_df, id, changes, last_clean, series, inferred, obj, line>>

RemoveDuplicates == \E args \in DedupArgs : remove_duplicates(args[1], args[2])

Init ==
    /\ \E t \in Tables : Construct(t)
    /\ series = <<>>
    /\ inferred = "none"
    /\ obj = None
    /\ line = ""

Next ==
    \/ RemoveDuplicates
    \/ reset
    \/ DetectDuplicates
    \/ DetectAnomalies
    \/ GetDataQualityScore

Spec == Init /\ [][Next]_vars

-----------------------------------------------------------------------------
(* Type inference applied to the input Series *)

EmptyTable == [columns |-> <<>>, rows |-> <<>>]

InferColumnType ==
    /\ inferred' = infer_column_type(series)
    /\ UNCHANGED <<df, original_df, caller_df, id, changes, last_clean, result, series, obj, line>>

InitInfer ==
    /\ Construct(EmptyTable)
    /\ series \in SeriesInputs
    /\ inferred = "none"
    /\ obj = None
    /\ line = ""

NextInfer == InferColumnType

SpecInfer == InitInfer /\ [][NextInfer]_vars

-----------------------------------------------------------------------------
(* The cleaning pipeline on its own tables *)

\* rows of a table with text, an empty column and numbers
MaxCleanRows == 2
\* rows of a table with one numeric column
MaxOutlierRows == 4

\* The rows such a table is made of.
CleanRows ==
    { <<Null, Null, Null>>, <<Str(" A"), Null, Num(1)>>, <<Str("7"), Null, Null>> }

CleanColumns == <<Col("A B", "object"), Col(" C!!", "number"), Col("a_b", "number")>>

Ones(k) == [i \in 1..k |-> <<Num(1)>>]

CleanTables ==
    UNION { { [columns |-> CleanColumns, rows |-> rs] : rs \in [1..k -> CleanRows] }
            : k \in 0..MaxCleanRows }
    \cup { [columns |-> <<Col("n", "number")>>,
            rows |-> Ones(k) \o << <<Num(100)>> >> \o (IF z = 1 THEN << <<Null>> >> ELSE <<>>)]
           : k \in 1..(MaxOutlierRows - 1), z \in 0..1 }
    \cup { [columns |-> <<Col("x", "number"), Col("y", "number")>>,
            rows |-> [i \in 1..k |-> <<Num(1), Num(1)>>]
                     \o << <<Num(1), Num(100)>>, <<Num(100), Num(1)>> >>]
           : k \in 1..(MaxOutlierRows - 2) }

\* The (subset, keep) arguments callers pass here.
CleanDedupArgs == { <<None, "first">>, <<(<<"a_b">>), "last">>, <<(<<"zz">>), "first">> }

RemoveDuplicatesClean ==
    CanLog /\ \E args \in CleanDedupArgs : remove_duplicates(args[1], args[2])
TrimWhitespace == \E columns \in TrimArgs : trim_whitespace(columns)
FillMissingValues == \E args \in FillArgs : fill_missing_values(args[1], args[2], args[3])
NormalizeTextCase == \E args \in NormalizeArgs : normalize_text_case(args[1], args[2])
RemoveOutliers == \E args \in OutlierArgs : remove_outliers(args[1], args[2], args[3])
ConvertDtypes == \E columns_types \in ConvertArgs : convert_dtypes(columns_types)

InitClean ==
    /\ \E t \in CleanTables : Construct(t)
    /\ series = <<>>
    /\ inferred = "none"
    /\ obj = None
    /\ line = ""

NextClean ==
    \/ remove_empty_rows
    \/ remove_empty_columns
    \/ TrimWhitespace
    \/ RemoveDuplicatesClean
    \/ FillMissingValues
    \/ standardize_column_names
    \/ NormalizeTextCase
    \/ RemoveOutliers
    \/ ConvertDtypes
    \/ reset

SpecClean == InitClean /\ [][NextClean]_vars

-----------------------------------------------------------------------------
(* csv_loader.py: delimiter detection on the first line of a file *)

MaxLineLen == 4

delimiters == <<",", ";", "\t", "|">>

\* line.count(sep) for a separator of one character
Count(l, sep) == Cardinality({ i \in 1..Len(l) : Char(l, i) = sep })

\* Mutant: a later candidate with the same count replaces the earlier one.
RECURSIVE DetectLoop_LastWins(_, _, _, _)
DetectLoop_LastWins(l, k, max_count, detected_sep) ==
    IF k > Len(delimiters) THEN detected_sep
    ELSE LET count == Count(l, delimiters[k])
         IN  IF count >= max_count
             THEN DetectLoop_LastWins(l, k + 1, count, delimiters[k])
             ELSE DetectLoop_LastWins(l, k + 1, max_count, detected_sep)

\* for sep in delimiters, from the k-th candidate on
RECURSIVE DetectLoop(_, _, _, _)
DetectLoop(l, k, max_count, detected_sep) ==
    IF k > Len(delimiters) THEN detected_sep
    ELSE LET count == Count(l, delimiters[k])
         IN  IF count > max_count
             THEN DetectLoop(l, k + 1, count, delimiters[k])
             ELSE DetectLoop(l, k + 1, max_count, detected_sep)

\* CSVLoader._detect_delimiter
detect_delimiter(l) == DetectLoop(l, 1, 0, ",")

\* The first lines: every text of at most MaxLineLen characters over a
\* letter and the four candidates.
LineChars == {"a", ",", ";", "\t", "|"}

RECURSIVE LinesUpTo(_)
LinesUpTo(n) ==
    IF n = 0 THEN {""}
    ELSE LinesUpTo(n - 1) \cup { l \o c : l \in LinesUpTo(n - 1), c \in LineChars }

DetectDelimiter ==
    /\ result' = [op |-> "_detect_delimiter", detected_sep |-> detect_delimiter(line)]
    /\ UNCHANGED <<df, original_df, caller_df, id, changes, last_clean, series, inferred, obj, line>>

InitDelimiter ==
    /\ Construct(EmptyTable)
    /\ series = <<>>
    /\ inferred = "none"
    /\ obj = None
    /\ line \in LinesUpTo(MaxLineLen)

NextDelimiter == DetectDelimiter

SpecDelimiter == InitDelimiter /\ [][NextDelimiter]_vars

-----------------------------------------------------------------------------
(* utils.py: sanitize_dict *)

MaxItems == 2
MaxDepth == 2

\* A Python object is <<type, n, text>> for a scalar (n the value of a
\* number or boolean; text the value of a str, and "nan", "inf" or "-inf"
\* for a float that is no finite number), <<"list", items>> for a list and
\* <<"dict", keys, values>> for a dict.
PyNone == <<"NoneType", 0, "">>
PyFloat(type, n) == <<type, n, "">>
NonFinite == {"nan", "inf", "-inf"}

Scalars ==
    { <<type, 0, text>> : type \in {"float", "np.float64"}, text \in NonFinite }
    \cup { PyFloat("float", 1), PyFloat("np.float64", 1),
           <<"int", 1, "">>, <<"np.int64", 1, "">>,
           <<"bool", 1, "">>, <<"np.bool_", 1, "">>,
           <<"str", 0, "a">>, <<"str", 0, "nan">>, PyNone }

ItemsOver(S, n) == UNION { [1..m -> S] : m \in 0..n }

\* Objects nested to depth d: lists of scalars of up to MaxItems items and
\* dicts of one key, then lists and dicts holding one such object.
RECURSIVE Objects(_)
Objects(d) ==
    IF d = 0 THEN Scalars
    ELSE IF d = 1
    THEN Scalars \cup { <<"list", items>> : items \in ItemsOver(Scalars, MaxItems) }
                 \cup { <<"dict", <<"k">>, <<v>> >> : v \in Scalars }
    ELSE LET S == Objects(d - 1)
         IN  S \cup { <<"list", <<o>> >> : o \in S } \cup { <<"dict", <<"k">>, <<o>> >> : o \in S }

\* pd.isna(obj) of a scalar: None and a nan of either float type; an
\* infinity is not missing.
pd_isna(o) == o = PyNone \/ (o[1] \in {"float", "np.float64"} /\ o[3] = "nan")

\* str(obj) of a numpy boolean
PyStr(o) == <<"str", 0, IF o[2] = 1 THEN "True" ELSE "False">>

\* sanitize_dict(obj)
RECURSIVE sanitize_dict(_)
sanitize_dict(o) ==
    CASE o[1] = "dict" -> <<"dict", o[2], [k \in 1..Len(o[3]) |-> sanitize_dict(o[3][k])]>>
      [] o[1] = "list" -> <<"list", [k \in 1..Len(o[2]) |-> sanitize_dict(o[2][k])]>>
      [] OTHER ->
           IF pd_isna(o) \/ (o[1] = "float" /\ o[3] = "nan") THEN PyNone
           ELSE IF o[1] = "np.int64" THEN <<"int", o[2], o[3]>>
           ELSE IF o[1] = "np.float64" THEN <<"float", o[2], o[3]>>
           ELSE IF o[1] \in {"int", "float", "str", "bool", "NoneType"} THEN o
           ELSE PyStr(o)

SanitizeDict ==
    /\ result' = [op |-> "sanitize_dict", value |-> sanitize_dict(obj)]
    /\ UNCHANGED <<df, original_df, caller_df, id, changes, last_clean, series, inferred, obj, line>>

InitSanitize ==
    /\ Construct(EmptyTable)
    /\ series = <<>>
    /\ inferred = "none"
    /\ obj \in Objects(MaxDepth)
    /\ line = ""

NextSanitize == SanitizeDict

SpecSanitize == InitSanitize /\ [][NextSanitize]_vars

-----------------------------------------------------------------------------
(* analyzer.py: CSVAnalyzer on the table df.  The numbers of the tables given
   to the analyzer are whole: cell[2] is the value. *)

MaxCorrRows == 3

\* numeric_df.columns, as positions in df
NumericIdx(t) ==
    SelectIdx([j \in 1..NCols(t) |-> j],
              [j \in 1..NCols(t) |-> t.columns[j].dtype = "number"], 1)

\* The sums DataFrame.corr() (Pearson, pairwise complete rows) is made of:
\* cov = n*Sxy - Sx*Sy and vv = (n*Sxx - Sx^2) * (n*Syy - Sy^2), so that the
\* correlation is cov / sqrt(vv), and nan where vv = 0.
CorrParts(t, a, b) ==
    LET both(i) == ~isna(t.rows[i][a]) /\ ~isna(t.rows[i][b])
        sum(f(_)) == SumSeq([i \in 1..NRows(t) |-> IF both(i) THEN f(i) ELSE 0])
        one(i) == 1
        x(i) == t.rows[i][a][2]
        y(i) == t.rows[i][b][2]
        xx(i) == x(i) * x(i)
        yy(i) == y(i) * y(i)
        xy(i) == x(i) * y(i)
        n == sum(one)
    IN  [cov |-> n * sum(xy) - sum(x) * sum(y),
         vv |-> (n * sum(xx) - sum(x) * sum(x)) * (n * sum(yy) - sum(y) * sum(y))]

\* The largest m in lo..hi with (m - 1/2)^2 <= 10^6 * p/q
RECURSIVE RootSearch(_, _, _, _)
RootSearch(lo, hi, p, q) ==
    IF lo = hi THEN lo
    ELSE LET mid == (lo + hi + 1) \div 2
         IN  IF (2 * mid - 1) * (2 * mid - 1) * q <= 4000000 * p
             THEN RootSearch(mid, hi, p, q)
             ELSE RootSearch(lo, mid - 1, p, q)

\* round(sqrt(p/q), 3) in thousandths, for 0 <= p <= q, q > 0
Round3(p, q) ==
    LET g == GCD(p, q)
    IN  IF 4000000 * (p \div g) < q \div g THEN 0
        ELSE RootSearch(1, 1000, p \div g, q \div g)

\* round(r, 3) of the correlation of columns a and b
Corr3(t, a, b) ==
    LET c == CorrParts(t, a, b)
    IN  IF c.vv = 0 THEN NaN
        ELSE <<(IF c.cov < 0 THEN -1 ELSE 1) * Round3(c.cov * c.cov, c.vv), 1000>>

\* CSVAnalyzer.get_correlation_matrix: the names of the numeric columns and,
\* for each, the rounded correlations with every numeric column.
get_correlation_matrix(t) ==
    LET numeric == NumericIdx(t)
    IN  IF Len(numeric) = 0
        THEN [op |-> "get_correlation_matrix", names |-> <<>>, corr_dict |-> <<>>]
        ELSE [op |-> "get_correlation_matrix",
              names |-> [k \in 1..Len(numeric) |-> t.columns[numeric[k]].name],
              corr_dict |-> [k \in 1..Len(numeric) |->
                               [m \in 1..Len(numeric) |-> Corr3(t, numeric[m], numeric[k])]]]

\* corr_matrix.abs() > threshold, for a threshold p/q >= 0
AbsCorrGt(t, a, b, threshold) ==
    LET c == CorrParts(t, a, b)
    IN  /\ c.vv > 0
        /\ c.cov * c.cov * threshold[2] * threshold[2] > threshold[1] * threshold[1] * c.vv

\* Mutant: every cell off the diagonal is kept.
Upper_OffDiagonal(a, b) == a # b

\* np.triu(np.ones(corr_matrix.shape), k=1): row a, column b of the upper
\* triangle without the diagonal
Upper(a, b) == a < b

\* for column in upper.columns, from the b-th on; for idx, corr_val in
\* corr_cols.items(), from the a-th row on
RECURSIVE HighCorrLoop(_, _, _, _, _)
HighCorrLoop(t, numeric, b, a, threshold) ==
    IF b > Len(numeric) THEN <<>>
    ELSE IF a > Len(numeric) THEN HighCorrLoop(t, numeric, b + 1, 1, threshold)
    ELSE (IF Upper(a, b) /\ AbsCorrGt(t, numeric[a], numeric[b], threshold)
          THEN << [column_1 |-> t.columns[numeric[a]].name,
                   column_2 |-> t.columns[numeric[b]].name,
                   correlation |-> Abs(Corr3(t, numeric[a], numeric[b])[1])] >>
          ELSE <<>>)
         \o HighCorrLoop(t, numeric, b, a + 1, threshold)

\* sorted(high_corr, key=lambda x: abs(x['correlation']), reverse=True): the
\* sort is stable, entries with equal keys keep their order.
RECURSIVE SortedReverse(_)
SortedReverse(s) ==
    IF Len(s) = 0 THEN <<>>
    ELSE LET first == CHOOSE i \in 1..Len(s) :
                         /\ \A k \in 1..Len(s) : s[k].correlation <= s[i].correlation
                         /\ \A k \in 1..(i - 1) : s[k].correlation < s[i].correlation
         IN  <<s[first]>> \o SortedReverse(SubSeq(s, 1, first - 1) \o SubSeq(s, first + 1, Len(s)))

\* CSVAnalyzer.get_high_correlations(threshold)
get_high_correlations(t, threshold) ==
    LET numeric == NumericIdx(t)
    IN  [op |-> "get_high_correlations", threshold |-> threshold,
         high_corr |-> IF Len(numeric) < 2 THEN <<>>
                       ELSE SortedReverse(HighCorrLoop(t, numeric, 1, 1, threshold))]

\* CSVAnalyzer.get_overall_summary, but for memory_usage_bytes; a percentage
\* is in hundredths, and nan for a table without cells.
get_overall_summary(t) ==
    LET null_cells == IsnaSumSum(t)
        total_cells == NRows(t) * NCols(t)
        pct == NpDiv(100 * null_cells, total_cells)
    IN  { [op |-> "get_overall_summary",
           total_rows |-> NRows(t),
           total_columns |-> NCols(t),
           total_cells |-> total_cells,
           null_cells |-> null_cells,
           null_percentage |-> null_percentage,
           duplicate_rows |-> DuplicatedSum(t, None, "first"),
           numeric_columns |-> Len(SelectDtypes(t, "number")),
           categorical_columns |-> Len(SelectDtypes(t, "object")),
           column_names |-> ColumnNames(t)]
          : null_percentage \in IF IsNaN(pct) THEN {NaN}
                                ELSE { <<h, 100>> : h \in Round2(pct) } }

\* The thresholds callers pass: the default 0.7, and 0.3.
Thresholds == { <<7, 10>>, <<3, 10>> }

\* The tables handed to CSVAnalyzer(df).
AnalyzeSchemas ==
    { [columns |-> <<Col("s", "object")>>, cells |-> <<{Str("a"), Str("b")}>>],
      [columns |-> <<Col("x", "number")>>, cells |-> <<{Null, Num(0), Num(1), Num(2)}>>],
      [columns |-> <<Col("s", "object"), Col("x", "number")>>,
       cells |-> <<{Str("a")}, {Null, Num(1)}>>],
      [columns |-> <<Col("x", "number"), Col("y", "number")>>,
       cells |-> <<{Num(0), Num(1), Num(2)}, {Null, Num(0), Num(1), Num(2)}>>],
      [columns |-> <<Col("x", "number"), Col("y", "number"), Col("z", "number")>>,
       cells |-> <<{Num(0), Num(1)}, {Num(0), Num(1)}, {Num(0), Num(1)}>>] }

AnalyzeRows(sch) ==
    { r \in [1..Len(sch.columns) -> UNION Range(sch.cells)] :
        \A j \in 1..Len(sch.columns) : r[j] \in sch.cells[j] }

AnalyzeTables ==
    {EmptyTable}
    \cup UNION { UNION { { [columns |-> sch.columns, rows |-> rs]
                           : rs \in [1..n -> AnalyzeRows(sch)] }
                         : n \in 0..MaxCorrRows }
                 : sch \in AnalyzeSchemas }

GetCorrelationMatrix ==
    /\ result' = get_correlation_matrix(df)
    /\ UNCHANGED <<df, original_df, caller_df, id, changes, last_clean, series, inferred, obj, line>>

GetHighCorrelations ==
    /\ \E threshold \in Thresholds : result' = get_high_correlations(df, threshold)
    /\ UNCHANGED <<df, original_df, caller_df, id, changes, last_clean, series, inferred, obj, line>>

GetOverallSummary ==
    /\ result' \in get_overall_summary(df)
    /\ UNCHANGED <<df, original_df, caller_df, id, changes, last_clean, series, inferred, obj, line>>

InitAnalyze ==
    /\ \E t \in AnalyzeTables : Construct(t)
    /\ series = <<>>
    /\ inferred = "none"
    /\ obj = None
    /\ line = ""

NextAnalyze ==
    \/ GetCorrelationMatrix
    \/ GetHighCorrelations
    \/ GetOverallSummary

SpecAnalyze == InitAnalyze /\ [][NextAnalyze]_vars

-----------------------------------------------------------------------------
(* Properties *)

IsScore == result.op = "get_data_quality_score"
IsDuplicates == result.op = "detect_duplicates"
IsAnomalies == result.op = "detect_anomalies"

\* The table holds at least one cell.
NonEmpty(t) == NRows(t) > 0 /\ NCols(t) > 0

\* Some row is identical, in every column, to another row.
HasDuplicateRow(t) ==
    NCols(t) > 0 /\ \E i, j \in 1..NRows(t) : i # j /\ t.rows[i] = t.rows[j]

HasNullCell(t) == \E i \in 1..NRows(t) : \E j \in 1..NCols(t) : isna(t.rows[i][j])

\* h hundredths is a value of two decimals nearest to n/d.
Nearest2(h, n, d) == 2 * Abs(h * d - 100 * n) <= d

InPercentRange(x) == ~IsNaN(x) /\ x[1] >= 0 /\ x[1] <= 100 * x[2]

CoercionFails(c) == ~ToNumericNotna(c)
InconsistentType(t, j) ==
    /\ t.columns[j].dtype = "object"
    /\ 10 * Cardinality({ i \in 1..NRows(t) : CoercionFails(t.rows[i][j]) }) > NRows(t)

\* C2: a table with no null cell, no duplicate row, no anomaly and
\* consistent column types scores overall_score 100.0 with issues_count 0.
C2_CleanTableScores100 ==
    ( /\ IsScore
      /\ ~HasNullCell(df)
      /\ ~HasDuplicateRow(df)
      /\ detect_anomalies(df) = <<>>
      /\ \A j \in 1..NCols(df) : ~InconsistentType(df, j) )
    => (result.overall_score = 10000 /\ result.issues_count = 0)

\* C3: type_score is max(0, 100 - 10 * N), N the number of object columns in
\* which more than 10% of the values fail numeric coercion.
C3_TypeScoreCountsCoercionFailures ==
    IsScore =>
        LET N == Cardinality({ j \in 1..NCols(df) : InconsistentType(df, j) })
        IN  result.scores.type_score = 100 * (IF 100 - 10 * N > 0 THEN 100 - 10 * N ELSE 0)

\* C6: duplicate_count is the number of rows that have another identical row
\* and duplicate_rows is duplicate_count / 2 truncated; three identical rows
\* give 3 and 1.
C6_DuplicateCountMarksAll ==
    (IsDuplicates /\ ~result.raised) =>
        LET marked == { i \in 1..NRows(df) :
                          \E j \in 1..NRows(df) : j # i /\ df.rows[j] = df.rows[i] }
        IN  /\ result.duplicate_count = Cardinality(marked)
            /\ result.duplicate_rows = result.duplicate_count \div 2
            /\ (NRows(df) = 3 /\ Cardinality(Range(df.rows)) = 1)
                  => (result.duplicate_count = 3 /\ result.duplicate_rows = 1)

C6_Witness ==
    /\ IsDuplicates /\ ~result.raised
    /\ NRows(df) = 3 /\ Cardinality(Range(df.rows)) = 1
    /\ result.duplicate_rows = 1

\* The rows of rs that no earlier row equals, in order.
FirstOccurrences(rs) ==
    SelectIdx(rs, [i \in 1..Len(rs) |-> \A j \in 1..(i - 1) : rs[j] # rs[i]], 1)

DedupFirst(c) ==
    c.op = "remove_duplicates" /\ c.keep = "first" /\ c.subset = None /\ ~c.raised

\* C7: remove_duplicates(keep='first') without subset keeps exactly the first
\* row of every group of identical rows, and detect_duplicates on the result
\* of a non-empty table reports duplicate_count 0.
C7_NoDuplicatesAfterRemoval ==
    /\ []((IsDuplicates /\ DedupFirst(last_clean) /\ NonEmpty(df))
            => (~result.raised /\ result.duplicate_count = 0))
    /\ [][(DedupFirst(last_clean') /\ result' = NoResult /\ NonEmpty(df))
            => df'.rows = FirstOccurrences(df.rows)]_vars

C7_Witness ==
    /\ IsDuplicates /\ DedupFirst(last_clean) /\ NonEmpty(df)
    /\ last_clean.removed > 0
    /\ ~result.raised /\ result.duplicate_count = 0

\* C8: duplicate_score is max(0, 100 - 100 * E / rows), E the occurrences
\* beyond the first of each group of identical rows; on n >= 2 identical rows
\* E is n - 1 while detect_duplicates reports duplicate_count n.
C8_DuplicateScoreCountsExtras ==
    NonEmpty(df) =>
        LET n == NRows(df)
            E == n - Cardinality(Range(df.rows))
            identical == n >= 2 /\ Cardinality(Range(df.rows)) = 1
        IN  /\ IsScore => Nearest2(result.scores.duplicate_score, 100 * n - 100 * E, n)
            /\ (IsScore /\ identical)
                  => Nearest2(result.scores.duplicate_score, 100 * n - 100 * (n - 1), n)
            /\ (IsDuplicates /\ identical) => result.duplicate_count = n

C8_Witness ==
    /\ IsScore /\ NRows(df) = 3 /\ NCols(df) > 0
    /\ Cardinality(Range(df.rows)) = 1
    /\ result.scores.duplicate_score = 3333

Flagged(type, name) ==
    { k \in 1..Len(result.anomalies) :
        result.anomalies[k].type = type /\ result.anomalies[k].column = name }

\* C9: a column is flagged constant_column iff it holds exactly one distinct
\* non-null value and high_null_percentage iff more than half of its rows are
\* null (exactly half is not flagged); each rule flags independently, so one
\* column can carry both, and an all-null column is high_null_percentage but
\* not constant_column.
C9_ConstantAndHighNullRules ==
    IsAnomalies =>
        \A j \in 1..NCols(df) :
            LET name == df.columns[j].name
                values == { df.rows[i][j] : i \in 1..NRows(df) } \ {Null}
                nulls == Cardinality({ i \in 1..NRows(df) : df.rows[i][j] = Null })
            IN  /\ Cardinality(Flagged("constant_column", name))
                     = (IF Cardinality(values) = 1 THEN 1 ELSE 0)
                /\ Cardinality(Flagged("high_null_percentage", name))
                     = (IF 2 * nulls > NRows(df) THEN 1 ELSE 0)
                /\ (NRows(df) > 0 /\ nulls = NRows(df))
                     => /\ Flagged("high_null_percentage", name) # {}
                        /\ Flagged("constant_column", name) = {}

C9_Witness ==
    /\ IsAnomalies
    /\ \E j \in 1..NCols(df) :
          /\ Flagged("constant_column", df.columns[j].name) # {}
          /\ Flagged("high_null_percentage", df.columns[j].name) # {}

\* C10: issues_count is the number of anomalies detect_anomalies returns,
\* plus 1 if some row is a duplicate, plus 1 if some cell is null.
C10_IssuesCount ==
    IsScore =>
        result.issues_count = Len(detect_anomalies(df))
                              + (IF HasDuplicateRow(df) THEN 1 ELSE 0)
                              + (IF HasNullCell(df) THEN 1 ELSE 0)

C10_Witness ==
    /\ IsScore
    /\ HasDuplicateRow(df) /\ HasNullCell(df)
    /\ Len(detect_anomalies(df)) >= 2
    /\ result.issues_count = Len(detect_anomalies(df)) + 2

\* C11: on a table without rows detect_duplicates, get_data_quality_score and
\* detect_anomalies return without raising and treat every percentage as 0%:
\* detect_duplicates returns duplicate_count 0 and duplicate_percentage 0, the
\* score's null and duplicate percentages are 0 (sub-scores 100.0), and no
\* column is flagged for a high null percentage.
C11_EmptyTablePercentagesAreZero ==
    NRows(df) = 0 =>
        /\ IsDuplicates => /\ ~result.raised
                           /\ result.duplicate_count = 0
                           /\ result.duplicate_percentage = 0
        /\ IsScore => /\ result.scores.null_score = 10000
                      /\ result.scores.duplicate_score = 10000
        /\ IsAnomalies => \A k \in 1..Len(result.anomalies) :
                              result.anomalies[k].type # "high_null_percentage"

-----------------------------------------------------------------------------
(* Properties of the cleaning pipeline, under SpecClean *)

Did(op) == last_clean.op = op /\ ~last_clean.raised
Does(op) == last_clean'.op = op /\ ~last_clean'.raised /\ result' = NoResult

\* C12: whatever cleaning operations and resets came before, reset() leaves
\* the working table equal to the table given at construction and the
\* change log empty.
C12_ResetRestores ==
    \A t \in CleanTables :
        (caller_df = t) => []((last_clean.op = "reset") => (df = t /\ changes = <<>>))

C12_Witness ==
    /\ last_clean.op = "reset"
    /\ df = caller_df
    /\ changes = <<>>
    /\ NRows(df) > 0

\* C13: no cleaning operation and no reset modifies the retained original
\* snapshot or the table the caller passed to the constructor; only the
\* working table and the change log change.
C13_OriginalsUntouched ==
    [][original_df' = original_df /\ caller_df' = caller_df /\ id'.df \notin {id'.original_df, id'.caller_df}
       /\ series' = series /\ inferred' = inferred /\ obj' = obj /\ line' = line]_vars

C13_Witness ==
    /\ Did("fill_missing_values")
    /\ df # original_df
    /\ original_df = caller_df
    /\ Len(changes) = 2

\* The change log is as before, or as before with one more entry at its end.
SameLog == changes' = changes
OneMoreEntry ==
    Len(changes') = Len(changes) + 1 /\ SubSeq(changes', 1, Len(changes)) = changes

\* The step removes no row and no column and fills no missing cell.
NoEffect ==
    /\ NRows(df') = NRows(df)
    /\ NCols(df') = NCols(df)
    /\ \A i \in 1..NRows(df) : \A j \in 1..NCols(df) :
          isna(df.rows[i][j]) => isna(df'.rows[i][j])

CountingOps ==
    { "remove_empty_rows", "remove_empty_columns", "remove_duplicates",
      "fill_missing_values", "remove_outliers" }

\* C14: remove_empty_rows, remove_empty_columns, remove_duplicates,
\* fill_missing_values and remove_outliers leave the change log as it is when
\* the call removes no row, removes no column and fills no missing cell, and
\* append at most one entry per call.
C14_NoEffectNoEntry ==
    [][(last_clean'.op \in CountingOps /\ result' = NoResult)
         => /\ SameLog \/ OneMoreEntry
            /\ NoEffect => SameLog]_vars

C14_Witness ==
    /\ Did("fill_missing_values")
    /\ last_clean.keep = "mean"
    /\ last_clean.removed = 0
    /\ HasNullCell(df)
    /\ df = original_df
    /\ changes = <<>>

CleaningOps ==
    CountingOps \cup { "trim_whitespace", "standardize_column_names",
                       "normalize_text_case", "convert_dtypes" }

\* C15: every cleaning operation that changes the working table appends
\* exactly one entry to the end of the change log, the entries before it
\* staying as they are; that includes a convert_dtypes call that converts a
\* column.
C15_EveryChangeIsLogged ==
    [][(last_clean'.op \in CleaningOps /\ ~last_clean'.raised /\ result' = NoResult /\ df' # df)
         => OneMoreEntry]_vars

HoldingColumns(t) ==
    LET holds(j) == \E i \in 1..NRows(t) : t.rows[i][j] # Null
        kept == { j \in 1..NCols(t) : holds(j) }
    IN  [k \in 1..Cardinality(kept) |->
            CHOOSE j \in kept : Cardinality({ m \in kept : m <= j }) = k]

\* C17: remove_empty_columns removes exactly the columns in which every value
\* is missing, keeps every other column with its position among the others
\* and its contents, and appends exactly one entry when it removed at least
\* one column, however many.
C17_RemovesExactlyEmptyColumns ==
    [][Does("remove_empty_columns")
         => LET idx == HoldingColumns(df)
            IN  /\ df'.columns = [k \in 1..Len(idx) |-> df.columns[idx[k]]]
                /\ df'.rows = [i \in 1..NRows(df) |-> [k \in 1..Len(idx) |-> df.rows[i][idx[k]]]]
                /\ IF Len(idx) < NCols(df) THEN OneMoreEntry ELSE SameLog]_vars

C17_Witness ==
    /\ Did("remove_empty_columns")
    /\ last_clean.removed = 2
    /\ NCols(df) = 1 /\ NRows(df) = 2
    /\ Len(changes) = 1

\* The positions of the columns a fill_missing_values call targets.
Targeted(t, columns) ==
    IF columns = None THEN 1..NCols(t)
    ELSE { j \in 1..NCols(t) : \E k \in 1..Len(columns) : t.columns[j].name = columns[k] }

NullCells(t, js) ==
    Cardinality({ <<i, j>> \in (1..NRows(t)) \X js : t.rows[i][j] = Null })

FillsValue ==
    /\ Does("fill_missing_values")
    /\ last_clean'.keep = "value"
    /\ last_clean'.fill_value # None

\* C18: fill_missing_values(method='value', fill_value=v) with v not null
\* leaves no missing value in any targeted column and, when the targeted
\* columns held k > 0 missing values, appends "Filled k missing values using
\* value", k being the missing values before minus those after.
C18_FillValue ==
    [][FillsValue
         => LET js == Targeted(df, last_clean'.subset)
                before == NullCells(df, js)
                after == NullCells(df', js)
                k == before - after
            IN  /\ after = 0
                /\ before > 0
                     => changes' = Append(changes, "Filled " \o ToString(k)
                                                   \o " missing values using value")
                /\ before = 0 => SameLog]_vars

C18_Witness ==
    /\ Did("fill_missing_values")
    /\ last_clean.keep = "value"
    /\ last_clean.fill_value # None
    /\ changes = <<"Filled 4 missing values using value">>
    /\ ~HasNullCell(df)

\* C19: standardize_column_names is idempotent on the column names: a second
\* call leaves the names the first call produced, which are lowercase and
\* hold only letters, digits and '_'.
C19_StandardizeIdempotent ==
    [][Does("standardize_column_names")
         => /\ Did("standardize_column_names") => ColumnNames(df') = ColumnNames(df)
            /\ \A j \in 1..NCols(df') :
                  LET name == df'.columns[j].name
                  IN  \A k \in 1..Len(name) :
                         /\ ~In(Char(name, k), UpperCase)
                         /\ In(Char(name, k), LowerCase \o Digits \o "_")]_vars

C19_Witness ==
    /\ Did("standardize_column_names")
    /\ changes = <<"Standardized column names", "Standardized column names">>
    /\ ColumnNames(df) # ColumnNames(original_df)
    /\ ColumnNames(df)[2] = "c"

UniqueNames(t) ==
    \A j, k \in 1..NCols(t) : j # k => t.columns[j].name # t.columns[k].name

\* C20: every cleaning operation preserves the uniqueness of the column
\* names, standardize_column_names on the columns 'A B' and 'a_b' included.
C20_ColumnNamesStayUnique ==
    [][(last_clean'.op \in CleaningOps /\ result' = NoResult /\ UniqueNames(df))
         => UniqueNames(df')]_vars

NamedOps ==
    { "trim_whitespace", "fill_missing_values", "normalize_text_case",
      "remove_outliers", "remove_duplicates", "convert_dtypes" }

\* C21: a cleaning operation that takes column names silently skips a name
\* that is no column of the working table: a call naming only such names
\* does not raise and leaves the table as it is.
C21_UnknownNamesSkipped ==
    [][(/\ last_clean'.op \in NamedOps
        /\ result' = NoResult
        /\ last_clean'.subset # None
        /\ \A k \in 1..Len(last_clean'.subset) : ~HasColumn(df, last_clean'.subset[k]))
         => (~last_clean'.raised /\ df' = df)]_vars

\* The frame has one column, which is numeric.
OneNumericColumn(t) == NCols(t) = 1 /\ t.columns[1].dtype = "number"

\* C22: remove_outliers(method='zscore') without a threshold uses 3: on a
\* frame of one numeric column it keeps exactly the rows whose absolute
\* standardized value, nulls imputed with the mean, is below 3.
C22_ZscoreDefaultThreshold3 ==
    [][(/\ Does("remove_outliers")
        /\ last_clean'.keep = "zscore"
        /\ last_clean'.subset = None
        /\ last_clean'.threshold = DefaultThreshold
        /\ OneNumericColumn(df))
         => \E keep \in ZscoreMasks(df, 1, Whole(3)) : df' = FilterRows(df, keep)]_vars

DoesIqr == Does("remove_outliers") /\ last_clean'.keep = "iqr"

\* The positions of the columns an IQR call processes, in the order given.
Processed(t, columns) ==
    LET names == IF columns = None THEN SelectDtypes(t, "number") ELSE columns
        known == SelectIdx(names, [k \in 1..Len(names) |-> HasColumn(t, names[k])], 1)
    IN  [k \in 1..Len(known) |-> ColumnIdx(t, known[k])]

\* Row i of column j is not missing and lies in [Q1 - k*IQR, Q3 + k*IQR].
WithinIqr(t, i, j, k) ==
    LET Q1 == Quantile(t, j, 1)
        Q3 == Quantile(t, j, 3)
        x == Val(t.rows[i][j])
    IN  /\ t.rows[i][j] # Null
        /\ FLe(FSub(Q1, FTimes(k, FSub(Q3, Q1))), x)
        /\ FLe(x, FAdd(Q3, FTimes(k, FSub(Q3, Q1))))

\* C29: remove_outliers(method='iqr') keeps a row iff its value in the
\* processed column is not missing and lies in [Q1 - k*IQR, Q3 + k*IQR]
\* (one processed column; C30 is about several); after the call no processed
\* column holds a missing value, and the rows removed for a missing value
\* are counted in the "Removed n outlier rows" entry.
C29_IqrKeepsNonNullWithinBounds ==
    [][DoesIqr
         => LET js == Processed(df, last_clean'.subset)
                n == NRows(df) - NRows(df')
            IN  /\ Len(js) = 1
                     => df'.rows = SelectIdx(df.rows,
                                             [i \in 1..NRows(df) |->
                                                WithinIqr(df, i, js[1], last_clean'.threshold)], 1)
                /\ \A k \in 1..Len(js) : \A i \in 1..NRows(df') : df'.rows[i][js[k]] # Null
                /\ IF n > 0
                   THEN changes' = Append(changes, "Removed " \o ToString(n)
                                                   \o " outlier rows using iqr")
                   ELSE SameLog]_vars

C29_Witness ==
    /\ Did("remove_outliers") /\ last_clean.keep = "iqr"
    /\ OneNumericColumn(df)
    /\ HasNullCell(original_df) /\ ~HasNullCell(df)
    /\ NRows(original_df) = NRows(df) + 2
    /\ changes = <<"Removed 2 outlier rows using iqr">>

\* The frame remove_outliers leaves for the columns given, by the IQR rule of
\* C29 applied to one column after the other.
RECURSIVE IqrInTurn(_, _, _, _)
IqrInTurn(t, columns, k, threshold) ==
    IF k > Len(columns) THEN t
    ELSE IqrInTurn(
           [t EXCEPT !.rows = SelectIdx(t.rows,
                                        [i \in 1..NRows(t) |->
                                           WithinIqr(t, i, ColumnIdx(t, columns[k]), threshold)], 1)],
           columns, k + 1, threshold)

\* Every column filtered with the bounds of the frame t.
IqrAtOnce(t, columns, threshold) ==
    [t EXCEPT !.rows = SelectIdx(t.rows,
                                 [i \in 1..NRows(t) |->
                                    \A k \in 1..Len(columns) :
                                       WithinIqr(t, i, ColumnIdx(t, columns[k]), threshold)], 1)]

TwoNumericColumns(t) ==
    NCols(t) = 2 /\ \A j \in 1..2 : t.columns[j].dtype = "number"

NewEntries == SubSeq(changes', Len(changes) + 1, Len(changes'))

StartsWith(s, prefix) == Len(s) >= Len(prefix) /\ SubSeq(s, 1, Len(prefix)) = prefix

\* The step logs the failure of the conversion of column name to dtype.
Warned(name, dtype) ==
    \E m \in 1..Len(NewEntries) :
       StartsWith(NewEntries[m], "Warning: Could not convert " \o name \o " to " \o dtype \o ": ")

\* Column j of frame u holds what a conversion of column j of t to dtype gives.
Converted(t, u, j, dtype) ==
    CASE dtype = "numeric" ->
            /\ u.columns[j].dtype = "number"
            /\ \A i \in 1..NRows(t) :
                  u.rows[i][j] = IF t.rows[i][j][1] = "str" /\ ~ToNumericNotna(t.rows[i][j])
                                 THEN Null
                                 ELSE IF t.rows[i][j][1] = "str"
                                 THEN Num(ParseDigits(t.rows[i][j][3], 0))
                                 ELSE t.rows[i][j]
      [] dtype = "int" ->
            /\ u.columns[j].dtype = "number"
            /\ \A i \in 1..NRows(t) : u.rows[i][j][1] = "num" /\ u.rows[i][j][4] = 1
      [] dtype \in {"string", "object"} ->
            /\ u.columns[j].dtype = "object"
            /\ \A i \in 1..NRows(t) : u.rows[i][j][1] = "str"
      [] OTHER -> FALSE

-----------------------------------------------------------------------------
(* Properties of type inference, under SpecInfer *)

Inferred == inferred # "none"
NonNullLen == SeriesLen(dropna(series))
NumericShare10 == 10 * NumericCount(dropna(series))
DatetimeShare10 == 10 * DatetimeCount(dropna(series))

\* C4 as stated: with a non-null value, at least 80% numeric gives numeric;
\* failing that, at least 80% datetime gives datetime.
C4_InclusiveThreshold ==
    (Inferred /\ NonNullLen > 0) =>
        /\ NumericShare10 >= 8 * NonNullLen => inferred = "numeric"
        /\ (NumericShare10 < 8 * NonNullLen /\ DatetimeShare10 >= 8 * NonNullLen)
              => inferred = "datetime"

\* C4 amended: with a non-null value, the result is numeric iff strictly more
\* than 80% of the non-null values coerce to a number; failing that it is
\* datetime iff strictly more than 80% coerce to a date.  Exactly 80% is
\* neither.
C4_StrictThreshold ==
    (Inferred /\ NonNullLen > 0) =>
        /\ inferred = "numeric" <=> NumericShare10 > 8 * NonNullLen
        /\ inferred = "datetime"
              <=> (NumericShare10 <= 8 * NonNullLen /\ DatetimeShare10 > 8 * NonNullLen)

C4_Witness ==
    /\ Inferred /\ NonNullLen > 0
    /\ NumericShare10 = 8 * NonNullLen
    /\ inferred # "numeric"

-----------------------------------------------------------------------------
(* Properties of delimiter detection, under SpecDelimiter *)

Detected == result.op = "_detect_delimiter"

\* The highest number of occurrences of a candidate in the line.
MostOccurrences ==
    CHOOSE n \in 0..Len(line) :
       /\ \A k \in 1..Len(delimiters) : Count(line, delimiters[k]) <= n
       /\ \E k \in 1..Len(delimiters) : Count(line, delimiters[k]) = n

\* C27: the delimiter detected is the candidate with the most occurrences
\* in the first line; among candidates with the same count the one earlier
\* in the order comma, semicolon, tab, pipe wins, and comma is returned when
\* no candidate occurs.
C27_MostFrequentEarliestWins ==
    Detected
      => \E k \in 1..Len(delimiters) :
            /\ result.detected_sep = delimiters[k]
            /\ Count(line, delimiters[k]) = MostOccurrences
            /\ \A m \in 1..(k - 1) : Count(line, delimiters[m]) < MostOccurrences
            /\ MostOccurrences = 0 => k = 1

\* Semicolon and pipe occur equally often and more often than comma and tab:
\* the semicolon is returned.
C27_Witness ==
    /\ Detected
    /\ Count(line, ";") = 2 /\ Count(line, "|") = 2
    /\ result.detected_sep = ";"

-----------------------------------------------------------------------------
(* Properties of sanitize_dict, under SpecSanitize *)

Sanitized == result.op = "sanitize_dict"

\* The object holds a NaN or an Infinity, at any depth.
RECURSIVE HoldsNonFinite(_)
HoldsNonFinite(o) ==
    CASE o[1] = "dict" -> \E k \in 1..Len(o[3]) : HoldsNonFinite(o[3][k])
      [] o[1] = "list" -> \E k \in 1..Len(o[2]) : HoldsNonFinite(o[2][k])
      [] OTHER -> o[1] \in {"float", "np.float64"} /\ o[3] \in NonFinite

Numeric == {"int", "float", "np.int64", "np.float64"}
Boolean == {"bool", "np.bool_"}

\* r is o with every NaN and Infinity replaced by None and every other
\* number, string and boolean left with its value.
RECURSIVE PassedThrough(_, _)
PassedThrough(o, r) ==
    CASE o[1] = "dict" ->
            /\ r[1] = "dict" /\ r[2] = o[2] /\ Len(r[3]) = Len(o[3])
            /\ \A k \in 1..Len(o[3]) : PassedThrough(o[3][k], r[3][k])
      [] o[1] = "list" ->
            /\ r[1] = "list" /\ Len(r[2]) = Len(o[2])
            /\ \A k \in 1..Len(o[2]) : PassedThrough(o[2][k], r[2][k])
      [] OTHER ->
            IF HoldsNonFinite(o) THEN r = PyNone
            ELSE /\ r[2] = o[2] /\ r[3] = o[3]
                 /\ o[1] \in Numeric => r[1] \in Numeric
                 /\ o[1] \in Boolean => r[1] \in Boolean
                 /\ o[1] \in {"str", "NoneType"} => r[1] = o[1]

\* C26: sanitize_dict replaces every NaN and every Infinity, at any depth
\* of dicts and lists, by None, so that the result holds neither, and passes
\* every other number, string and boolean through with its value.
C26_NoNaNOrInfinityLeft ==
    Sanitized => ~HoldsNonFinite(result.value) /\ PassedThrough(obj, result.value)

-----------------------------------------------------------------------------
(* Properties of the analyzer, under SpecAnalyze *)

HighCorrelations == result.op = "get_high_correlations"

\* The position in df of the column named in an entry.
Position(name) == CHOOSE j \in 1..NCols(df) : df.columns[j].name = name

\* Entry e comes before entry f when the matrix is gone through column by
\* column.
IterationOrder(e, f) ==
    \/ Position(e.column_2) < Position(f.column_2)
    \/ Position(e.column_2) = Position(f.column_2) /\ Position(e.column_1) < Position(f.column_1)

\* C23: get_high_correlations returns at most one entry per unordered pair
\* of distinct numeric columns and none pairing a column with itself; every
\* entry records the absolute value of the correlation, which is strictly
\* greater than the threshold; the list is sorted by correlation descending,
\* entries of equal correlation in the order of the matrix iteration.
C23_HighCorrelationsList ==
    HighCorrelations
      => LET es == result.high_corr
             numeric == { df.columns[j].name : j \in Range(NumericIdx(df)) }
         IN  /\ \A i \in 1..Len(es) :
                   /\ es[i].column_1 \in numeric /\ es[i].column_2 \in numeric
                   /\ es[i].column_1 # es[i].column_2
                   /\ LET c == CorrParts(df, Position(es[i].column_1), Position(es[i].column_2))
                      IN  /\ c.vv > 0
                          /\ es[i].correlation = Round3(c.cov * c.cov, c.vv)
                          /\ es[i].correlation >= 0
                          /\ c.cov * c.cov * result.threshold[2] * result.threshold[2]
                                > result.threshold[1] * result.threshold[1] * c.vv
             /\ \A i, k \in 1..Len(es) :
                   i < k => /\ {es[i].column_1, es[i].column_2} # {es[k].column_1, es[k].column_2}
                            /\ es[i].correlation >= es[k].correlation
                            /\ es[i].correlation = es[k].correlation
                                  => IterationOrder(es[i], es[k])

\* Three entries: a correlation of -1 recorded as 1.0 before two of 0.5 in
\* iteration order.
C23_Witness ==
    /\ HighCorrelations
    /\ Len(result.high_corr) = 3
    /\ result.high_corr[1].correlation = 1000
    /\ CorrParts(df, Position(result.high_corr[1].column_1),
                 Position(result.high_corr[1].column_2)).cov < 0
    /\ result.high_corr[1].column_2 = "z"
    /\ result.high_corr[2].correlation = 500
    /\ result.high_corr[3].correlation = 500
    /\ result.high_corr[2].column_2 = "y"

\* C24: get_correlation_matrix returns an empty mapping whenever the table
\* has fewer than 2 numeric columns: for none and for exactly one.
C24_EmptyMatrixBelowTwoColumns ==
    (result.op = "get_correlation_matrix" /\ Len(NumericIdx(df)) < 2)
      => result.names = <<>> /\ result.corr_dict = <<>>

\* C25: get_overall_summary reports as duplicate_rows the number of rows
\* identical in all columns to some other row, each member of a set of
\* duplicates counted, and total_cells = total_rows * total_columns.
C25_DuplicateRowsCountsEveryMember ==
    result.op = "get_overall_summary"
      => /\ result.duplicate_rows = DuplicatedSum(df, None, "none")
         /\ result.total_cells = result.total_rows * result.total_columns

====
